---- MODULE Spec2Model ----
(***************************************************************************)
(* The RenegadeX patcher library: the Downloader (src/src/lib.rs) and the  *)
(* mirror registry (src/src/mirrors.rs).                                   *)
(*                                                                         *)
(* Strings are sequences of hash atoms: the uppercase-hex SHA-256 of file  *)
(* content c is <<c>>, the delta key "N_from_O" is <<N, O>>, and           *)
(* Option::None (a JSON null) is the empty sequence.  Content 0 stands for *)
(* any bytes whose digest is none of the published hashes.                 *)
(***************************************************************************)
EXTENDS Integers, Sequences, FiniteSets, TLC

\* ------------------------------------------------------------------ bounds
NumInstr == 2
NumMirrors == 2
Hashes == {1, 2}
OldHashes == {1}
Contents == {0} \cup Hashes
Paths == 1..NumInstr
RunPaths == {1, 2}
OnePath == {1}
MaxRestarts == 1
ProbedMirrors == 3
ProbeBytes == 10000
PlaceholderSpeed == 80
Durations == {0, 1, 2, 4, 5}
MaxWholeParts == 4
Offsets == {0 - 3, 0 - 2, 0 - 1, 0, 1, 2, 3}

\* ------------------------------------------------------- program constants
part_size == 1000000
MaxAttempts == 5

None == << >>
is_some(x) == x # None

VARIABLES
  pc,               \* position of the thread that called download()
  mirrors,          \* Mirrors::mirrors, the registry in rank order
  manifest,         \* instructions.json as published (one entry per path)
  disk,             \* installation files: path -> content, for the files that exist
  patcher_dir,      \* whether <install>/patcher/ exists
  blobs,            \* files under patcher/: key -> [len, sentinel, parts]
  hash_queue,       \* Downloader::hash_queue
  download_hashmap, \* Downloader::download_hashmap: key -> DownloadEntry
  state,            \* Downloader::state (Progress)
  worker,           \* planner workers (rayon), one per instruction / queue entry
  map_lock,         \* holder of the download_hashmap mutex, 0 when free
  poisoned,         \* the download_hashmap mutex was poisoned by a panic
  task,             \* download workers (rayon), one per download_hashmap key
  fatal,            \* some worker panicked: the panic reaches download()'s caller
  served,           \* bytes the mirrors have served for blobs (observation)
  remote,           \* what each mirror address answers to a blob request
  hist,             \* observation across restarts: restarts so far, parts completed
  probe,            \* test_mirrors: the probe threads and the join position
  load,             \* retrieve_instructions: the retry index, the attempts made, the text kept
  walk,             \* download_file's part loop over one file size: the ranges requested
  state_lock,       \* holder of the Progress State mutex, "free" when free
  queue_lock,       \* holder of the hash_queue mutex, "free" when free
  observer          \* the poll_progress thread: its position and the flags it last read

vars == <<pc, mirrors, manifest, disk, patcher_dir, blobs, hash_queue,
          download_hashmap, state, worker, map_lock, poisoned, task, fatal, served,
          remote, hist, probe, load, walk, state_lock, queue_lock, observer>>

\* ----------------------------------------------------------------- manifest
\* Sizes and blob digests are functions of the content address: the mirrors
\* hold one blob per key and the manifest describes it consistently.
FullReplaceSizeOf(n) == n * part_size + part_size \div 2
DeltaSizeOf(n, o) == n * part_size
PublishedDigest(key) == <<"sha256", key>>
OtherDigest(key) == <<"other", key>>

FullKey(new_hash) == new_hash
DeltaKey(new_hash, old_hash) == new_hash \o old_hash

Instruction(p, o, n, d) ==
  [path |-> p, old_hash |-> o, new_hash |-> n,
   compressed_hash |-> IF is_some(n) THEN PublishedDigest(FullKey(n)) ELSE None,
   delta_hash |-> IF d THEN PublishedDigest(DeltaKey(n, o)) ELSE None,
   full_replace_size |-> IF is_some(n) THEN FullReplaceSizeOf(n[1]) ELSE 0,
   delta_size |-> IF d THEN DeltaSizeOf(n[1], o[1]) ELSE 0,
   has_delta |-> d]

OptOld == {None} \cup {<<h>> : h \in OldHashes}
OptNew == {None} \cup {<<h>> : h \in Hashes}

InstructionsFor(p) ==
  {Instruction(p, t[1], t[2], t[3]) :
     t \in {u \in OptOld \X OptNew \X BOOLEAN :
              u[3] => (is_some(u[1]) /\ is_some(u[2]))}}

\* ------------------------------------------------------------------- helpers
Exists(p) == p \in DOMAIN disk

\* get_hash: the digest string of the file's content (lines 487-492).
get_hash(p) == <<disk[p]>>

Progress == [download_size |-> <<0, 0>>, finished_hash |-> FALSE,
             finished_patching |-> FALSE]

IdleWorker == [pc |-> "done", key |-> None, file_size |-> 0, file_hash |-> None,
               has_source |-> FALSE, target_path |-> 0, found |-> FALSE]

Job(w, key, size, hash, src, path) ==
  [w EXCEPT !.pc = "lock", !.key = key, !.file_size = size, !.file_hash = hash,
            !.has_source = src, !.target_path = path]

WorkersStopped == \A i \in Paths : worker[i].pc \in {"done", "panicked"}

\* --------------------------------------------------------------------- Init
\* A registry of n probed mirrors in rank order; the manifest and the
\* installation directory are the run's inputs.
Registry(n) == [i \in 1..n |-> [address |-> i, speed |-> 10000, enabled |-> TRUE]]

\* The planner treats all instructions alike, so of the manifests that differ
\* only in the order of their entries one is enough: entries are taken in
\* nondecreasing order of InputCode.
OptCode(x) == IF x = None THEN 0 ELSE x[1]
InputCode(ins, d) ==
  ((OptCode(ins.old_hash) * (Cardinality(Hashes) + 1) + OptCode(ins.new_hash)) * 2
     + (IF ins.has_delta THEN 1 ELSE 0)) * (Cardinality(Contents) + 1)
  + (IF ins.path \in DOMAIN d THEN d[ins.path] + 1 ELSE 0)

Inputs(P) ==
  /\ \E m \in [P -> UNION {InstructionsFor(p) : p \in P}] :
       /\ \A p \in P : m[p].path = p
       /\ manifest = m
  /\ \E S \in SUBSET P : disk \in [S -> Contents]
  /\ \A p, q \in P : p < q => InputCode(manifest[p], disk) <= InputCode(manifest[q], disk)

Fresh ==
  /\ pc = "start"
  /\ blobs = << >>
  /\ hash_queue = << >>
  /\ download_hashmap = << >>
  /\ state = Progress
  /\ worker = [i \in Paths |-> IdleWorker]
  /\ map_lock = 0
  /\ poisoned = FALSE
  /\ task = << >>
  /\ fatal = FALSE
  /\ served = 0
  /\ hist = [restarts |-> 0, complete |-> << >>, interrupted |-> << >>]
  /\ probe = [at |-> "ranked", result |-> << >>, joined |-> 0, spawned |-> << >>]
  /\ load = [retry |-> 0, tried |-> << >>, text |-> None, before |-> << >>]
  /\ walk = [file_size |-> 0, part_int |-> 0, ranges |-> << >>]
  /\ state_lock = "free"
  /\ queue_lock = "free"
  /\ observer = [pc |-> "unspawned", finished_hash |-> FALSE, finished_patching |-> FALSE]

Init ==
  /\ \E n \in 0..NumMirrors : mirrors = Registry(n)
  /\ remote = [a \in 1..Len(mirrors) |-> "any"]
  /\ Inputs(RunPaths)
  /\ patcher_dir \in BOOLEAN
  /\ Fresh

\* ----------------------------------------------------------------- download
\* download(), lines 133-139: no mirrors is a panic; otherwise the manifest is
\* retrieved.  retrieve_instructions (lines 155-194) tries mirrors[0..2]; an
\* attempt fails when the mirror serves a manifest with another digest, cannot
\* be reached, or does not exist (the index panics inside catch_unwind).  On
\* success at attempt r the first r mirrors are removed.
RetrieveOk(r) ==
  /\ r < Len(mirrors)
  /\ mirrors' = SubSeq(mirrors, r + 1, Len(mirrors))
  /\ pc' = "process"
  /\ worker' = [i \in Paths |->
        [IdleWorker EXCEPT !.pc = IF i \in DOMAIN manifest THEN "open" ELSE "done"]]

RetrieveFail ==
  /\ pc' = "panic"
  /\ UNCHANGED <<mirrors, worker>>

Download ==
  /\ pc = "start"
  /\ IF Len(mirrors) = 0
       THEN pc' = "panic" /\ UNCHANGED <<mirrors, worker>>
       ELSE \/ \E r \in 0..2 : RetrieveOk(r)
            \/ RetrieveFail
  /\ UNCHANGED <<manifest, disk, patcher_dir, blobs, hash_queue, download_hashmap,
                 state, map_lock, poisoned, task, fatal, served, remote, hist, probe,
                 load, walk,
                 state_lock, queue_lock, observer>>

\* ------------------------------------------------------ process_instructions
\* One rayon worker per instruction: open the file (lines 216-238).
ProcOpen(i) ==
  /\ pc = "process"
  /\ worker[i].pc = "open"
  /\ LET ins == manifest[i] IN
       IF Exists(ins.path)
         THEN /\ hash_queue' = IF is_some(ins.new_hash)
                                  THEN Append(hash_queue, ins) ELSE hash_queue
              /\ worker' = [worker EXCEPT ![i].pc = "done"]
         ELSE /\ worker' = [worker EXCEPT ![i] =
                   IF is_some(ins.new_hash)
                     THEN Job(@, FullKey(ins.new_hash), ins.full_replace_size,
                              ins.compressed_hash, FALSE, ins.path)
                     ELSE [@ EXCEPT !.pc = "done"]]
              /\ UNCHANGED hash_queue
  /\ UNCHANGED <<pc, mirrors, manifest, disk, patcher_dir, blobs, download_hashmap,
                 state, map_lock, poisoned, task, fatal, served, remote, hist, probe,
                 load, walk,
                 state_lock, queue_lock, observer>>

\* download_hashmap.lock().unwrap() followed by contains_key (lines 241-242,
\* 291-292, 319-320).  A poisoned mutex makes unwrap panic.
NoLock == TRUE
LockFree == map_lock = 0
NeverContains(key) == FALSE
ContainsKey(key) == key \in DOMAIN download_hashmap

MapLock(i) ==
  /\ pc \in {"process", "check"}
  /\ worker[i].pc = "lock"
  /\ IF poisoned
       THEN /\ worker' = [worker EXCEPT ![i].pc = "panicked"]
            /\ fatal' = TRUE
            /\ UNCHANGED map_lock
       ELSE /\ LockFree
            /\ map_lock' = i
            /\ worker' = [worker EXCEPT ![i].pc = "insert",
                                         ![i].found = ContainsKey(worker[i].key)]
            /\ UNCHANGED fatal
  /\ UNCHANGED <<pc, mirrors, manifest, disk, patcher_dir, blobs, hash_queue,
                 download_hashmap, state, poisoned, task, served, remote, hist, probe,
                 load, walk,
                 state_lock, queue_lock, observer>>

\* if !contains_key { insert(DownloadEntry); state.download_size.1 += size }
\* (lines 242-252, 292-302, 320-330).  Building the entry unwraps the blob's
\* hash: None panics with the mutex held, which poisons it.
MapInsert(i) ==
  /\ pc \in {"process", "check"}
  /\ worker[i].pc = "insert"
  /\ LET w == worker[i] IN
       IF w.found
         THEN /\ worker' = [worker EXCEPT ![i].pc = "push"]
              /\ UNCHANGED <<download_hashmap, state, map_lock, poisoned, fatal>>
         ELSE IF ~is_some(w.file_hash)
           THEN /\ worker' = [worker EXCEPT ![i].pc = "panicked"]
                /\ poisoned' = TRUE
                /\ map_lock' = 0
                /\ fatal' = TRUE
                /\ UNCHANGED <<download_hashmap, state>>
           ELSE /\ download_hashmap' =
                     (w.key :> [file_size |-> w.file_size, file_hash |-> w.file_hash,
                                patch_entries |-> << >>]) @@ download_hashmap
                /\ state' = [state EXCEPT !.download_size[2] = @ + w.file_size]
                /\ worker' = [worker EXCEPT ![i].pc = "push"]
                /\ UNCHANGED <<map_lock, poisoned, fatal>>
  /\ UNCHANGED <<pc, mirrors, manifest, disk, patcher_dir, blobs, hash_queue, task, served, remote, hist, probe,
                 load, walk,
                 state_lock, queue_lock, observer>>

\* patch_entries.push(PatchEntry { target_hash: key.clone(), .. }), then the
\* guard is dropped (lines 253-259, 304-310, 332-338).
MapPush(i) ==
  /\ pc \in {"process", "check"}
  /\ worker[i].pc = "push"
  /\ LET w == worker[i] IN
       download_hashmap' = [download_hashmap EXCEPT ![w.key].patch_entries =
           Append(@, [target_path |-> w.target_path, has_source |-> w.has_source,
                      target_hash |-> w.key])]
  /\ map_lock' = IF map_lock = i THEN 0 ELSE map_lock
  /\ worker' = [worker EXCEPT ![i].pc = "done"]
  /\ UNCHANGED <<pc, mirrors, manifest, disk, patcher_dir, blobs, hash_queue, state,
                 poisoned, task, fatal, served, remote, hist, probe,
                 load, walk,
                 state_lock, queue_lock, observer>>

\* process_instructions returns when every worker has; a worker's panic is
\* resumed in the caller.  download() then calls check_hashes (line 141).
ProcJoin ==
  /\ pc = "process"
  /\ WorkersStopped
  /\ IF fatal
       THEN pc' = "panic" /\ UNCHANGED worker
       ELSE /\ pc' = "check"
            /\ worker' = [i \in Paths |->
                  [IdleWorker EXCEPT !.pc = IF i <= Len(hash_queue) THEN "hash" ELSE "done"]]
  /\ UNCHANGED <<mirrors, manifest, disk, patcher_dir, blobs, hash_queue,
                 download_hashmap, state, map_lock, poisoned, task, fatal, served, remote, hist, probe,
                 load, walk,
                 state_lock, queue_lock, observer>>

\* ------------------------------------------------------------- check_hashes
\* One rayon worker per hash_queue entry: hash the file and classify it
\* (lines 286-287, 311, 313-318).
ClassifyNeverCurrent(e, file_hash) ==
  IF /\ is_some(e.old_hash) /\ is_some(e.new_hash)
     /\ file_hash = e.old_hash /\ file_hash # e.new_hash
    THEN "delta" ELSE "full"

ClassifyNeverFull(e, file_hash) ==
  IF /\ is_some(e.old_hash) /\ is_some(e.new_hash)
     /\ file_hash = e.old_hash /\ file_hash # e.new_hash
    THEN "delta" ELSE "up-to-date"

ClassifyOldFirst(e, file_hash) ==
  IF is_some(e.old_hash) /\ is_some(e.new_hash) /\ file_hash = e.old_hash
    THEN "delta"
  ELSE IF is_some(e.new_hash) /\ file_hash = e.new_hash
    THEN "up-to-date"
  ELSE "full"

Classify(e, file_hash) ==
  IF /\ is_some(e.old_hash) /\ is_some(e.new_hash)
     /\ file_hash = e.old_hash /\ file_hash # e.new_hash
    THEN "delta"
  ELSE IF is_some(e.new_hash) /\ file_hash = e.new_hash
    THEN "up-to-date"
  ELSE "full"

HashEntry(j) ==
  /\ pc = "check"
  /\ worker[j].pc = "hash"
  /\ LET e == hash_queue[j]
         class == Classify(e, get_hash(e.path))
     IN worker' = [worker EXCEPT ![j] =
          IF class = "delta"
            THEN Job(@, DeltaKey(e.new_hash, e.old_hash), e.delta_size,
                     e.delta_hash, TRUE, e.path)
          ELSE IF class = "up-to-date"
            THEN [@ EXCEPT !.pc = "done"]
          ELSE Job(@, FullKey(e.new_hash), e.full_replace_size,
                   e.compressed_hash, FALSE, e.path)]
  /\ UNCHANGED <<pc, mirrors, manifest, disk, patcher_dir, blobs, hash_queue,
                 download_hashmap, state, map_lock, poisoned, task, fatal, served, remote, hist, probe,
                 load, walk,
                 state_lock, queue_lock, observer>>

NewTask == [pc |-> "download", attempt |-> 0, log |-> << >>, applied |-> {},
            failed |-> FALSE, gets |-> 0, part |-> 0, begun |-> FALSE,
            start_part |-> 0, start_credit |-> 0, step |-> << >>, prior |-> << >>]

\* state.finished_hash = true (line 341); download() calls download_files.
HashJoin ==
  /\ pc = "check"
  /\ WorkersStopped
  /\ IF fatal
       THEN pc' = "panic" /\ UNCHANGED <<state, task>>
       ELSE /\ pc' = "download"
            /\ state' = [state EXCEPT !.finished_hash = TRUE]
            /\ task' = [k \in DOMAIN download_hashmap |-> NewTask]
  /\ UNCHANGED <<mirrors, manifest, disk, patcher_dir, blobs, hash_queue,
                 download_hashmap, worker, map_lock, poisoned, fatal, served, remote, hist, probe,
                 load, walk,
                 state_lock, queue_lock, observer>>

\* ------------------------------------------------------------ download_file
\* parts_amount (line 389).
parts_amount(size) == size \div part_size + (IF size % part_size > 0 THEN 1 ELSE 0)

\* OpenOptions::create(true): an absent blob is created empty (line 387).
OpenBlob(key, size) ==
  IF key \in DOMAIN blobs THEN blobs[key]
  ELSE [len |-> 0, sentinel |-> 0, parts |-> [p \in 1..parts_amount(size) |-> "zero"]]

\* get_hash of a blob file that has its final length.
blob_hash(f, key, size) ==
  IF f.len = size /\ \A p \in 1..Len(f.parts) : f.parts[p] = "ok"
    THEN PublishedDigest(key) ELSE OtherDigest(key)

\* Lines 391-419: a complete blob with the right digest is accepted as it is;
\* a shorter file is extended by the 4 sentinel bytes (zeros); the sentinel is
\* read as resume_part and part_size * resume_part is credited.
DlPrepare(f, key, e) ==
  LET complete == f.len < e.file_size + 4 /\ f.len = e.file_size
                  /\ blob_hash(f, key, e.file_size) = e.file_hash
      g == IF f.len < e.file_size + 4
             THEN [f EXCEPT !.len = e.file_size + 4, !.sentinel = 0] ELSE f
  IN IF complete
       THEN [file |-> f, ret |-> "ok", part |-> 0, credit |-> e.file_size]
       ELSE [file |-> g, ret |-> "go", part |-> g.sentinel,
             credit |-> IF g.sentinel # 0 THEN part_size * g.sentinel ELSE 0]

\* Lines 422-426.
bytes_start(part_int) == part_int * part_size
bytes_end(part_int, size) ==
  LET end == part_int * part_size + part_size - 1
  IN IF end > size THEN size ELSE end

\* What a mirror sends for Range: bytes=start-end of a blob of `size` bytes.
RangeLen(start, end, size) == (IF end > size - 1 THEN size - 1 ELSE end) - start + 1

\* Lines 434-435: the sentinel is overwritten with part_int.
SentinelValue(part_int) == part_int
DlWriteSentinel(f, part_int) == [f EXCEPT !.sentinel = SentinelValue(part_int)]
\* Lines 427-432: the payload of part_int is written at bytes_start.
SentinelBeforePayload(f, part_int, answer) == DlWriteSentinel(f, part_int)
DlWritePayload(f, part_int, answer) == [f EXCEPT !.parts[part_int + 1] = answer]
\* Line 437.
NegativeCredit(part_int, size) == 0 - part_size
DlCredit(part_int, size) == bytes_end(part_int, size) - bytes_start(part_int)

\* Lines 440-449: drop the sentinel, hash the blob.
DlFinish(f, key, e) ==
  LET g == [f EXCEPT !.len = e.file_size, !.sentinel = 0]
  IN [file |-> g,
      ret |-> IF blob_hash(g, key, e.file_size) # e.file_hash THEN "err" ELSE "ok"]

\* The part loop of lines 421-438 run to its end against one mirror.  A mirror
\* that cannot be reached makes download_response.unwrap() panic (line 431).
RECURSIVE DlLoop(_, _, _, _, _)
DlLoop(d, part_int, key, e, answer) ==
  IF part_int >= parts_amount(e.file_size)
    THEN LET fin == DlFinish(d.file, key, e)
         IN [d EXCEPT !.file = fin.file, !.ret = fin.ret]
  ELSE IF answer = "down"
    THEN [d EXCEPT !.ret = "panic"]
  ELSE DlLoop([file |-> DlWriteSentinel(DlWritePayload(d.file, part_int, answer), part_int),
               ret |-> d.ret,
               credit |-> d.credit + DlCredit(part_int, e.file_size),
               gets |-> d.gets + 1,
               bytes |-> d.bytes + RangeLen(bytes_start(part_int),
                                            bytes_end(part_int, e.file_size), e.file_size)],
              part_int + 1, key, e, answer)

\* download_file (lines 382-450) as one call.
download_file(key, e, answer) ==
  LET prep == DlPrepare(OpenBlob(key, e.file_size), key, e)
      d0 == [file |-> prep.file, ret |-> prep.ret, credit |-> prep.credit,
             gets |-> 0, bytes |-> 0]
  IN IF prep.ret = "ok" THEN d0 ELSE DlLoop(d0, prep.part, key, e, answer)

\* ----------------------------------------------------------- download_files
Answers(a) == IF remote[a] = "any" THEN {"ok", "corrupt", "down"} ELSE {remote[a]}

TaskPanic(k) ==
  /\ task' = [task EXCEPT ![k].pc = "panicked"]
  /\ fatal' = TRUE

\* One rayon worker per key: one iteration of `for attempt in 0..5`
\* (lines 351-363).
DownloadAttempt(k) ==
  /\ pc = "download"
  /\ task[k].pc = "download"
  /\ LET t == task[k]
         e == download_hashmap[k]
     IN IF t.attempt + 1 > Len(mirrors) \/ ~patcher_dir
          THEN TaskPanic(k) /\ UNCHANGED <<blobs, state, served>>
          ELSE \E answer \in Answers(mirrors[t.attempt + 1].address) :
                 LET d == download_file(k, e, answer) IN
                   /\ blobs' = (k :> d.file) @@ blobs
                   /\ state' = [state EXCEPT !.download_size[1] = @ + d.credit]
                   /\ served' = served + d.bytes
                   /\ IF d.ret = "panic" \/ (d.ret = "err" /\ t.attempt = MaxAttempts - 1)
                        THEN /\ fatal' = TRUE
                             /\ task' = [task EXCEPT ![k].pc = "panicked",
                                                     ![k].log = Append(@, answer),
                                                     ![k].gets = @ + d.gets]
                        ELSE /\ UNCHANGED fatal
                             /\ task' = [task EXCEPT
                                  ![k].pc = IF d.ret = "ok" THEN "patch" ELSE "download",
                                  ![k].attempt = IF d.ret = "ok" THEN @ ELSE @ + 1,
                                  ![k].log = Append(@, answer),
                                  ![k].gets = @ + d.gets]
  /\ UNCHANGED <<pc, mirrors, manifest, disk, patcher_dir, hash_queue, download_hashmap,
                 worker, map_lock, poisoned, remote, hist, probe,
                 load, walk,
                 state_lock, queue_lock, observer>>

\* Lines 477-480: the target's digest against the entry's target_hash.
NoHashCheck(c, pe) == FALSE
PatchHashMismatch(c, pe) == <<c>> # pe.target_hash

\* apply_patch (lines 460-481) for one Patch Entry; the decoder's output is
\* whatever content it produces.
ApplyPatch(k, x) ==
  /\ pc = "download"
  /\ task[k].pc = "patch"
  /\ x \in 1..Len(download_hashmap[k].patch_entries)
  /\ x \notin task[k].applied
  /\ LET pe == download_hashmap[k].patch_entries[x] IN
       IF pe.has_source /\ ~Exists(pe.target_path)
         THEN /\ task' = [task EXCEPT ![k].applied = @ \cup {x}, ![k].failed = TRUE]
              /\ fatal' = TRUE
              /\ UNCHANGED disk
         ELSE \E c \in Contents :
                /\ disk' = (pe.target_path :> c) @@ disk
                /\ IF PatchHashMismatch(c, pe)
                     THEN /\ task' = [task EXCEPT ![k].applied = @ \cup {x},
                                                  ![k].failed = TRUE]
                          /\ fatal' = TRUE
                     ELSE /\ task' = [task EXCEPT ![k].applied = @ \cup {x}]
                          /\ UNCHANGED fatal
  /\ UNCHANGED <<pc, mirrors, manifest, patcher_dir, blobs, hash_queue, download_hashmap,
                 state, worker, map_lock, poisoned, served, remote, hist, probe,
                 load, walk,
                 state_lock, queue_lock, observer>>

\* After the task's patch entries: remove_file(blob) (line 368), unless an
\* apply_patch panicked.  The inner par_iter().for_each (lines 365-367) returns
\* when every apply_patch has.
NoneAwaited(k) == TRUE
AllApplied(k) == task[k].applied = 1..Len(download_hashmap[k].patch_entries)

RemoveBlob(k) ==
  /\ pc = "download"
  /\ task[k].pc = "patch"
  /\ AllApplied(k)
  /\ IF task[k].failed
       THEN /\ task' = [task EXCEPT ![k].pc = "panicked"]
            /\ UNCHANGED blobs
       ELSE /\ task' = [task EXCEPT ![k].pc = "done"]
            /\ blobs' = [b \in DOMAIN blobs \ {k} |-> blobs[b]]
  /\ UNCHANGED <<pc, mirrors, manifest, disk, patcher_dir, hash_queue, download_hashmap,
                 state, worker, map_lock, poisoned, fatal, served, remote, hist, probe,
                 load, walk,
                 state_lock, queue_lock, observer>>

TasksStopped == \A k \in DOMAIN task : task[k].pc \in {"done", "panicked"}

\* state.finished_patching = true (lines 370-373).
FinishPatching ==
  /\ pc = "download"
  /\ TasksStopped
  /\ IF fatal
       THEN pc' = "panic" /\ UNCHANGED state
       ELSE /\ pc' = "cleanup"
            /\ state' = [state EXCEPT !.finished_patching = TRUE]
  /\ UNCHANGED <<mirrors, manifest, disk, patcher_dir, blobs, hash_queue, download_hashmap,
                 worker, map_lock, poisoned, task, fatal, served, remote, hist, probe,
                 load, walk,
                 state_lock, queue_lock, observer>>

\* remove_dir_all(patcher/).unwrap() (line 375), then download() returns.
RemovePatcherDir ==
  /\ pc = "cleanup"
  /\ IF patcher_dir
       THEN pc' = "done" /\ patcher_dir' = FALSE /\ blobs' = << >>
       ELSE pc' = "panic" /\ UNCHANGED <<patcher_dir, blobs>>
  /\ UNCHANGED <<mirrors, manifest, disk, hash_queue, download_hashmap, state,
                 worker, map_lock, poisoned, task, fatal, served, remote, hist, probe,
                 load, walk,
                 state_lock, queue_lock, observer>>

\* ------------------------------------------- download_file, statement by statement
\* The same code as download_file above, one action per statement group, so
\* that the process can be killed between any two of them.
BlobSizeOf(key) ==
  IF Len(key) = 1 THEN FullReplaceSizeOf(key[1]) ELSE DeltaSizeOf(key[1], key[2])
Complete(key) == IF key \in DOMAIN hist.complete THEN hist.complete[key] ELSE 0
Max(a, b) == IF a > b THEN a ELSE b

\* Lines 352-355 and 386-419: pick mirrors[attempt], open the blob, set its
\* length, read the sentinel, credit the resumed parts.
DlBegin(k) ==
  /\ pc = "download"
  /\ task[k].pc = "download"
  /\ LET t == task[k]
         e == download_hashmap[k]
         f0 == OpenBlob(k, e.file_size)
         prep == DlPrepare(f0, k, e)
     IN IF t.attempt + 1 > Len(mirrors) \/ ~patcher_dir
          THEN TaskPanic(k) /\ UNCHANGED <<blobs, state, hist>>
          ELSE /\ blobs' = (k :> prep.file) @@ blobs
               /\ state' = [state EXCEPT !.download_size[1] = @ + prep.credit]
               /\ hist' = [hist EXCEPT !.complete =
                    (k :> IF f0.len < e.file_size + 4 THEN 0 ELSE Complete(k)) @@ @]
               /\ task' = [task EXCEPT
                    ![k].pc = IF prep.ret = "ok" THEN "patch"
                              ELSE IF prep.part < parts_amount(e.file_size) THEN "get"
                              ELSE "finish",
                    ![k].part = prep.part,
                    ![k].begun = TRUE,
                    ![k].start_part = IF t.begun THEN @ ELSE prep.part,
                    ![k].start_credit = IF t.begun THEN @ ELSE prep.credit]
               /\ UNCHANGED fatal
  /\ UNCHANGED <<pc, mirrors, manifest, disk, patcher_dir, hash_queue, download_hashmap,
                 worker, map_lock, poisoned, served, remote, probe,
                 load, walk,
                 state_lock, queue_lock, observer>>

\* Lines 422-432: the ranged GET of one part and the write of its payload.
DlGet(k) ==
  /\ pc = "download"
  /\ task[k].pc = "get"
  /\ LET t == task[k]
         e == download_hashmap[k]
     IN \E answer \in Answers(mirrors[t.attempt + 1].address) :
          IF answer = "down"
            THEN /\ TaskPanic(k)
                 /\ UNCHANGED <<blobs, served>>
            ELSE /\ blobs' = [blobs EXCEPT ![k] = DlWritePayload(@, t.part, answer)]
                 /\ served' = served + RangeLen(bytes_start(t.part),
                                                bytes_end(t.part, e.file_size), e.file_size)
                 /\ task' = [task EXCEPT ![k].pc = "sentinel", ![k].gets = @ + 1]
                 /\ UNCHANGED fatal
  /\ UNCHANGED <<pc, mirrors, manifest, disk, patcher_dir, hash_queue, download_hashmap,
                 state, worker, map_lock, poisoned, remote, hist, probe,
                 load, walk,
                 state_lock, queue_lock, observer>>

\* Lines 434-435.
DlSentinel(k) ==
  /\ pc = "download"
  /\ task[k].pc = "sentinel"
  /\ blobs' = [blobs EXCEPT ![k] = DlWriteSentinel(@, task[k].part)]
  /\ hist' = [hist EXCEPT !.complete = (k :> Max(Complete(k), task[k].part + 1)) @@ @]
  /\ task' = [task EXCEPT ![k].pc = "credit"]
  /\ UNCHANGED <<pc, mirrors, manifest, disk, patcher_dir, hash_queue, download_hashmap,
                 state, worker, map_lock, poisoned, fatal, served, remote, probe,
                 load, walk,
                 state_lock, queue_lock, observer>>

\* Lines 436-437, and the loop's step.
DlCreditPart(k) ==
  /\ pc = "download"
  /\ task[k].pc = "credit"
  /\ LET size == download_hashmap[k].file_size IN
       /\ state' = [state EXCEPT !.download_size[1] = @ + DlCredit(task[k].part, size)]
       /\ task' = [task EXCEPT
            ![k].part = @ + 1,
            ![k].pc = IF task[k].part + 1 < parts_amount(size) THEN "get" ELSE "finish"]
  /\ UNCHANGED <<pc, mirrors, manifest, disk, patcher_dir, blobs, hash_queue,
                 download_hashmap, worker, map_lock, poisoned, fatal, served, remote,
                 hist, probe,
                 load, walk,
                 state_lock, queue_lock, observer>>

\* Lines 440-449 and the caller's match (lines 357-362).
DlEnd(k) ==
  /\ pc = "download"
  /\ task[k].pc = "finish"
  /\ LET fin == DlFinish(blobs[k], k, download_hashmap[k]) IN
       /\ blobs' = [blobs EXCEPT ![k] = fin.file]
       /\ IF fin.ret = "err" /\ task[k].attempt = MaxAttempts - 1
            THEN TaskPanic(k)
            ELSE /\ task' = [task EXCEPT
                      ![k].pc = IF fin.ret = "ok" THEN "patch" ELSE "download",
                      ![k].attempt = IF fin.ret = "ok" THEN @ ELSE @ + 1]
                 /\ UNCHANGED fatal
  /\ UNCHANGED <<pc, mirrors, manifest, disk, patcher_dir, hash_queue, download_hashmap,
                 state, worker, map_lock, poisoned, served, remote, hist, probe,
                 load, walk,
                 state_lock, queue_lock, observer>>

\* The process is killed (or has ended) and the engine is run again: a new
\* Downloader (lines 83-92) over the same installation directory.
InProgress(key) == key \in DOMAIN blobs /\ blobs[key].len = BlobSizeOf(key) + 4

Restart ==
  /\ pc # "start"
  /\ hist.restarts < MaxRestarts
  /\ pc' = "start"
  /\ mirrors' = Registry(Len(remote))
  /\ hash_queue' = << >>
  /\ download_hashmap' = << >>
  /\ state' = Progress
  /\ worker' = [i \in Paths |-> IdleWorker]
  /\ map_lock' = 0
  /\ poisoned' = FALSE
  /\ task' = << >>
  /\ fatal' = FALSE
  /\ hist' = [hist EXCEPT !.restarts = @ + 1,
                          !.interrupted = [key \in {x \in DOMAIN blobs : InProgress(x)} |->
                                             Complete(key)]]
  /\ served' = 0
  /\ UNCHANGED <<manifest, disk, patcher_dir, blobs, remote, probe,
                 load, walk,
                 state_lock, queue_lock, observer>>

\* ------------------------------------------- apply_patch, statement by statement
\* The same code as ApplyPatch above, one action per statement, so that the
\* process can be killed between any two of them.  task[k].step[x] is the
\* position of the apply_patch call for patch entry x, task[k].prior[x] the
\* content the target had when that call began (observation).

\* format!("{}.vcdiff_src", target_path) (line 465): the sidecar of path p is
\* a path of its own, distinct from every installation path.
SourcePath(p) == 0 - p

\* What the target holds while decode_file is still writing it: a truncated
\* output, whose digest is no published hash.
PartialOutput == 0 - 1

Remove(d, p) == [q \in DOMAIN d \ {p} |-> d[q]]
RemoveWithoutSidecar(d, from, to) == Remove(d, from)
\* std::fs::rename (line 466): the file moves, replacing what was at `to`.
Rename(d, from, to) == (to :> d[from]) @@ Remove(d, from)

PatchCall(k, x) ==
  /\ pc = "download"
  /\ task[k].pc = "patch"
  /\ x \in 1..Len(download_hashmap[k].patch_entries)
  /\ x \notin task[k].applied

\* Lines 461-466 with a source, lines 461-463 and 471-474 without.
PatchBegin(k, x) ==
  /\ PatchCall(k, x)
  /\ x \notin DOMAIN task[k].step
  /\ LET pe == download_hashmap[k].patch_entries[x]
         t == pe.target_path
     IN IF pe.has_source /\ ~Exists(t)
          THEN /\ task' = [task EXCEPT ![k].applied = @ \cup {x}, ![k].failed = TRUE]
               /\ fatal' = TRUE
               /\ UNCHANGED disk
          ELSE /\ disk' = IF pe.has_source THEN Rename(disk, t, SourcePath(t))
                          ELSE Remove(disk, t)
               /\ task' = [task EXCEPT
                    ![k].step = (x :> "ready") @@ @,
                    ![k].prior = IF pe.has_source THEN (x :> disk[t]) @@ @ ELSE @]
               /\ UNCHANGED fatal
  /\ UNCHANGED <<pc, mirrors, manifest, patcher_dir, blobs, hash_queue, download_hashmap,
                 state, worker, map_lock, poisoned, served, remote, hist, probe,
                 load, walk,
                 state_lock, queue_lock, observer>>

\* decode_file (lines 467, 475) has opened the target and is writing it.
PatchDecodeStart(k, x) ==
  /\ PatchCall(k, x)
  /\ x \in DOMAIN task[k].step
  /\ task[k].step[x] = "ready"
  /\ LET pe == download_hashmap[k].patch_entries[x] IN
       disk' = (pe.target_path :> PartialOutput) @@ disk
  /\ task' = [task EXCEPT ![k].step[x] = "decoding"]
  /\ UNCHANGED <<pc, mirrors, manifest, patcher_dir, blobs, hash_queue, download_hashmap,
                 state, worker, map_lock, poisoned, fatal, served, remote, hist, probe,
                 load, walk,
                 state_lock, queue_lock, observer>>

\* decode_file returns: the target holds the decoder's output.
PatchDecodeEnd(k, x) ==
  /\ PatchCall(k, x)
  /\ x \in DOMAIN task[k].step
  /\ task[k].step[x] = "decoding"
  /\ LET pe == download_hashmap[k].patch_entries[x] IN
       /\ \E c \in Contents : disk' = (pe.target_path :> c) @@ disk
       /\ task' = [task EXCEPT ![k].step[x] = IF pe.has_source THEN "decoded" ELSE "check"]
  /\ UNCHANGED <<pc, mirrors, manifest, patcher_dir, blobs, hash_queue, download_hashmap,
                 state, worker, map_lock, poisoned, fatal, served, remote, hist, probe,
                 load, walk,
                 state_lock, queue_lock, observer>>

\* remove_file(source_path).unwrap() (line 468).
PatchRemoveSource(k, x) ==
  /\ PatchCall(k, x)
  /\ x \in DOMAIN task[k].step
  /\ task[k].step[x] = "decoded"
  /\ LET pe == download_hashmap[k].patch_entries[x] IN
       IF Exists(SourcePath(pe.target_path))
         THEN /\ disk' = Remove(disk, SourcePath(pe.target_path))
              /\ task' = [task EXCEPT ![k].step[x] = "check"]
              /\ UNCHANGED fatal
         ELSE /\ task' = [task EXCEPT ![k].applied = @ \cup {x}, ![k].failed = TRUE]
              /\ fatal' = TRUE
              /\ UNCHANGED disk
  /\ UNCHANGED <<pc, mirrors, manifest, patcher_dir, blobs, hash_queue, download_hashmap,
                 state, worker, map_lock, poisoned, served, remote, hist, probe,
                 load, walk,
                 state_lock, queue_lock, observer>>

\* Lines 477-480.
PatchCheck(k, x) ==
  /\ PatchCall(k, x)
  /\ x \in DOMAIN task[k].step
  /\ task[k].step[x] = "check"
  /\ LET pe == download_hashmap[k].patch_entries[x] IN
       IF PatchHashMismatch(disk[pe.target_path], pe)
         THEN /\ task' = [task EXCEPT ![k].applied = @ \cup {x}, ![k].failed = TRUE]
              /\ fatal' = TRUE
         ELSE /\ task' = [task EXCEPT ![k].applied = @ \cup {x}]
              /\ UNCHANGED fatal
  /\ UNCHANGED <<pc, mirrors, manifest, disk, patcher_dir, blobs, hash_queue,
                 download_hashmap, state, worker, map_lock, poisoned, served, remote,
                 hist, probe, load, walk,
                 state_lock, queue_lock, observer>>

\* ------------------------------------------------------- the three mutexes
\* The same code once more with every lock() and every drop of a guard as a
\* step of its own: hash_queue (queue_lock), download_hashmap (map_lock) and
\* state (state_lock), and the thread that poll_progress spawns.  std's
\* Mutex::lock blocks until the mutex is free.
MainThread == NumInstr + 1

\* A MutexGuard goes out of scope.
KeepLocked(holder) == holder
Unlock(holder) == "free"

\* poll_progress, lines 505-513: after the sleep, state.lock().unwrap().
ObsLock ==
  /\ observer.pc = "sleep"
  /\ state_lock = "free"
  /\ state_lock' = "observer"
  /\ observer' = [observer EXCEPT !.pc = "read"]
  /\ UNCHANGED <<pc, mirrors, manifest, disk, patcher_dir, blobs, hash_queue,
                 download_hashmap, state, worker, map_lock, poisoned, task, fatal,
                 served, remote, hist, probe, load, walk, queue_lock>>

\* Lines 510-513 and the loop condition (line 505): the flags are copied, the
\* guard is dropped, the loop ends once finished_patching was read as true.
ObsRead ==
  /\ observer.pc = "read"
  /\ observer' = [pc |-> IF state.finished_patching THEN "exit" ELSE "sleep",
                  finished_hash |-> state.finished_hash,
                  finished_patching |-> state.finished_patching]
  /\ state_lock' = Unlock(state_lock)
  /\ UNCHANGED <<pc, mirrors, manifest, disk, patcher_dir, blobs, hash_queue,
                 download_hashmap, state, worker, map_lock, poisoned, task, fatal,
                 served, remote, hist, probe, load, walk, queue_lock>>

\* process_instructions, lines 216-240: as ProcOpen, up to the first lock().
ProcOpenQ(i) ==
  /\ pc = "process"
  /\ worker[i].pc = "open"
  /\ LET ins == manifest[i] IN
       worker' = [worker EXCEPT ![i] =
         IF ~is_some(ins.new_hash) THEN [@ EXCEPT !.pc = "done"]
         ELSE IF Exists(ins.path) THEN [@ EXCEPT !.pc = "qlock"]
         ELSE Job(@, FullKey(ins.new_hash), ins.full_replace_size,
                  ins.compressed_hash, FALSE, ins.path)]
  /\ UNCHANGED <<pc, mirrors, manifest, disk, patcher_dir, blobs, hash_queue,
                 download_hashmap, state, map_lock, poisoned, task, fatal, served,
                 remote, hist, probe, load, walk, state_lock, queue_lock, observer>>

\* self.hash_queue.lock().unwrap() (line 221).
QueueLock(i) ==
  /\ pc = "process"
  /\ worker[i].pc = "qlock"
  /\ queue_lock = "free"
  /\ queue_lock' = "worker"
  /\ worker' = [worker EXCEPT ![i].pc = "qpush"]
  /\ UNCHANGED <<pc, mirrors, manifest, disk, patcher_dir, blobs, hash_queue,
                 download_hashmap, state, map_lock, poisoned, task, fatal, served,
                 remote, hist, probe, load, walk, state_lock, observer>>

\* hash_queue.push(hash_entry) (lines 222-232); the guard is dropped.
QueuePush(i) ==
  /\ pc = "process"
  /\ worker[i].pc = "qpush"
  /\ hash_queue' = Append(hash_queue, manifest[i])
  /\ queue_lock' = Unlock(queue_lock)
  /\ worker' = [worker EXCEPT ![i].pc = "done"]
  /\ UNCHANGED <<pc, mirrors, manifest, disk, patcher_dir, blobs, download_hashmap,
                 state, map_lock, poisoned, task, fatal, served, remote, hist, probe,
                 load, walk, state_lock, observer>>

\* As MapInsert, up to self.state.lock() (lines 242-250, 292-300, 320-328),
\* which is taken with the download_hashmap guard held.
MapInsertS(i) ==
  /\ pc \in {"process", "check"}
  /\ worker[i].pc = "insert"
  /\ LET w == worker[i] IN
       IF w.found
         THEN /\ worker' = [worker EXCEPT ![i].pc = "push"]
              /\ UNCHANGED <<download_hashmap, map_lock, poisoned, fatal>>
         ELSE IF ~is_some(w.file_hash)
           THEN /\ worker' = [worker EXCEPT ![i].pc = "panicked"]
                /\ poisoned' = TRUE
                /\ map_lock' = 0
                /\ fatal' = TRUE
                /\ UNCHANGED download_hashmap
           ELSE /\ download_hashmap' =
                     (w.key :> [file_size |-> w.file_size, file_hash |-> w.file_hash,
                                patch_entries |-> << >>]) @@ download_hashmap
                /\ worker' = [worker EXCEPT ![i].pc = "slock"]
                /\ UNCHANGED <<map_lock, poisoned, fatal>>
  /\ UNCHANGED <<pc, mirrors, manifest, disk, patcher_dir, blobs, hash_queue, state,
                 task, served, remote, hist, probe, load, walk, state_lock, queue_lock,
                 observer>>

\* self.state.lock().unwrap() (lines 250, 300, 328).
StateLock(i) ==
  /\ pc \in {"process", "check"}
  /\ worker[i].pc = "slock"
  /\ state_lock = "free"
  /\ state_lock' = "worker"
  /\ worker' = [worker EXCEPT ![i].pc = "sadd"]
  /\ UNCHANGED <<pc, mirrors, manifest, disk, patcher_dir, blobs, hash_queue,
                 download_hashmap, state, map_lock, poisoned, task, fatal, served,
                 remote, hist, probe, load, walk, queue_lock, observer>>

\* state.download_size.1 += size (lines 251, 301, 329); the guard is dropped.
StateAdd(i) ==
  /\ pc \in {"process", "check"}
  /\ worker[i].pc = "sadd"
  /\ state' = [state EXCEPT !.download_size[2] = @ + worker[i].file_size]
  /\ state_lock' = Unlock(state_lock)
  /\ worker' = [worker EXCEPT ![i].pc = "push"]
  /\ UNCHANGED <<pc, mirrors, manifest, disk, patcher_dir, blobs, hash_queue,
                 download_hashmap, map_lock, poisoned, task, fatal, served, remote,
                 hist, probe, load, walk, queue_lock, observer>>

\* check_hashes: self.hash_queue.lock().unwrap() (line 284), held by the
\* calling thread until check_hashes returns.
CheckLock ==
  /\ pc = "check"
  /\ queue_lock = "free"
  /\ queue_lock' = "main"
  /\ UNCHANGED <<pc, mirrors, manifest, disk, patcher_dir, blobs, hash_queue,
                 download_hashmap, state, worker, map_lock, poisoned, task, fatal,
                 served, remote, hist, probe, load, walk, state_lock, observer>>

\* The par_iter of line 285 starts once the guard is held.
HashEntryQ(j) == queue_lock = "main" /\ HashEntry(j)

\* The par_iter has joined (line 340); a worker's panic unwinds the caller,
\* which drops the hash_queue guard.
HashJoinQ ==
  /\ pc = "check"
  /\ queue_lock = "main"
  /\ WorkersStopped
  /\ IF fatal
       THEN pc' = "panic" /\ queue_lock' = Unlock(queue_lock)
       ELSE pc' = "hashed" /\ UNCHANGED queue_lock
  /\ UNCHANGED <<mirrors, manifest, disk, patcher_dir, blobs, hash_queue,
                 download_hashmap, state, worker, map_lock, poisoned, task, fatal,
                 served, remote, hist, probe, load, walk, state_lock, observer>>

\* self.state.lock().unwrap() (line 341), with the hash_queue guard held.
FinishHashLock ==
  /\ pc = "hashed"
  /\ state_lock = "free"
  /\ state_lock' = "main"
  /\ pc' = "hashflag"
  /\ UNCHANGED <<mirrors, manifest, disk, patcher_dir, blobs, hash_queue,
                 download_hashmap, state, worker, map_lock, poisoned, task, fatal,
                 served, remote, hist, probe, load, walk, queue_lock, observer>>

\* finished_hash = true (line 341); both guards are dropped (lines 341-342).
FinishHash ==
  /\ pc = "hashflag"
  /\ state' = [state EXCEPT !.finished_hash = TRUE]
  /\ state_lock' = Unlock(state_lock)
  /\ queue_lock' = Unlock(queue_lock)
  /\ pc' = "files"
  /\ UNCHANGED <<mirrors, manifest, disk, patcher_dir, blobs, hash_queue,
                 download_hashmap, worker, map_lock, poisoned, task, fatal, served,
                 remote, hist, probe, load, walk, observer>>

\* download_files: self.download_hashmap.lock().unwrap() (line 349), held by
\* the calling thread until download_files returns; the par_iter of line 350
\* starts.
FilesLock ==
  /\ pc = "files"
  /\ IF poisoned
       THEN pc' = "panic" /\ UNCHANGED <<map_lock, task>>
       ELSE /\ LockFree
            /\ map_lock' = MainThread
            /\ pc' = "download"
            /\ task' = [k \in DOMAIN download_hashmap |-> NewTask]
  /\ UNCHANGED <<mirrors, manifest, disk, patcher_dir, blobs, hash_queue,
                 download_hashmap, state, worker, poisoned, fatal, served, remote,
                 hist, probe, load, walk, state_lock, queue_lock, observer>>

\* As DlBegin, up to the state.lock() of line 397 (a complete blob) or of
\* line 417 (resume_part != 0).
DlBeginS(k) ==
  /\ pc = "download"
  /\ task[k].pc = "download"
  /\ LET t == task[k]
         e == download_hashmap[k]
         f0 == OpenBlob(k, e.file_size)
         prep == DlPrepare(f0, k, e)
     IN IF t.attempt + 1 > Len(mirrors) \/ ~patcher_dir
          THEN TaskPanic(k) /\ UNCHANGED <<blobs, hist>>
          ELSE /\ blobs' = (k :> prep.file) @@ blobs
               /\ hist' = [hist EXCEPT !.complete =
                    (k :> IF f0.len < e.file_size + 4 THEN 0 ELSE Complete(k)) @@ @]
               /\ task' = [task EXCEPT
                    ![k].pc = IF prep.credit > 0 THEN "slock"
                              ELSE IF prep.ret = "ok" THEN "patch"
                              ELSE IF prep.part < parts_amount(e.file_size) THEN "get"
                              ELSE "finish",
                    ![k].part = prep.part,
                    ![k].begun = TRUE,
                    ![k].start_part = IF t.begun THEN @ ELSE prep.part,
                    ![k].start_credit = IF t.begun THEN @ ELSE prep.credit]
               /\ UNCHANGED fatal
  /\ UNCHANGED <<pc, mirrors, manifest, disk, patcher_dir, hash_queue,
                 download_hashmap, state, worker, map_lock, poisoned, served, remote,
                 probe, load, walk, state_lock, queue_lock, observer>>

\* self.state.lock().unwrap() (lines 397, 417).
DlStateLock(k) ==
  /\ pc = "download"
  /\ task[k].pc = "slock"
  /\ state_lock = "free"
  /\ state_lock' = "task"
  /\ task' = [task EXCEPT ![k].pc = "sadd"]
  /\ UNCHANGED <<pc, mirrors, manifest, disk, patcher_dir, blobs, hash_queue,
                 download_hashmap, state, worker, map_lock, poisoned, fatal, served,
                 remote, hist, probe, load, walk, queue_lock, observer>>

\* Line 398 and return Ok(()) for a complete blob (still file_size bytes
\* long); line 418 and the part loop for a resumed one.
DlStateAdd(k) ==
  /\ pc = "download"
  /\ task[k].pc = "sadd"
  /\ LET e == download_hashmap[k]
         complete == blobs[k].len = e.file_size
     IN /\ state' = [state EXCEPT !.download_size[1] =
                       @ + (IF complete THEN e.file_size ELSE part_size * task[k].part)]
        /\ task' = [task EXCEPT ![k].pc =
                       IF complete THEN "patch"
                       ELSE IF task[k].part < parts_amount(e.file_size) THEN "get"
                       ELSE "finish"]
  /\ state_lock' = Unlock(state_lock)
  /\ UNCHANGED <<pc, mirrors, manifest, disk, patcher_dir, blobs, hash_queue,
                 download_hashmap, worker, map_lock, poisoned, fatal, served, remote,
                 hist, probe, load, walk, queue_lock, observer>>

\* self.state.lock().unwrap() (line 436).
DlCreditLock(k) ==
  /\ pc = "download"
  /\ task[k].pc = "credit"
  /\ state_lock = "free"
  /\ state_lock' = "task"
  /\ task' = [task EXCEPT ![k].pc = "crediting"]
  /\ UNCHANGED <<pc, mirrors, manifest, disk, patcher_dir, blobs, hash_queue,
                 download_hashmap, state, worker, map_lock, poisoned, fatal, served,
                 remote, hist, probe, load, walk, queue_lock, observer>>

\* Line 437 and the loop's step, as DlCreditPart; the guard is dropped at
\* the end of the loop body.
DlCreditPartS(k) ==
  /\ pc = "download"
  /\ task[k].pc = "crediting"
  /\ LET size == download_hashmap[k].file_size IN
       /\ state' = [state EXCEPT !.download_size[1] = @ + DlCredit(task[k].part, size)]
       /\ task' = [task EXCEPT
            ![k].part = @ + 1,
            ![k].pc = IF task[k].part + 1 < parts_amount(size) THEN "get" ELSE "finish"]
  /\ state_lock' = Unlock(state_lock)
  /\ UNCHANGED <<pc, mirrors, manifest, disk, patcher_dir, blobs, hash_queue,
                 download_hashmap, worker, map_lock, poisoned, fatal, served, remote,
                 hist, probe, load, walk, queue_lock, observer>>

\* The par_iter of line 350 has joined (line 369); a task's panic unwinds the
\* caller, which drops the download_hashmap guard.
FilesJoin ==
  /\ pc = "download"
  /\ TasksStopped
  /\ IF fatal
       THEN pc' = "panic" /\ map_lock' = 0
       ELSE pc' = "finlock" /\ UNCHANGED map_lock
  /\ UNCHANGED <<mirrors, manifest, disk, patcher_dir, blobs, hash_queue,
                 download_hashmap, state, worker, poisoned, task, fatal, served,
                 remote, hist, probe, load, walk, state_lock, queue_lock, observer>>

\* self.state.lock().unwrap() (line 371), with the download_hashmap guard held.
FinishLock ==
  /\ pc = "finlock"
  /\ state_lock = "free"
  /\ state_lock' = "main"
  /\ pc' = "finflag"
  /\ UNCHANGED <<mirrors, manifest, disk, patcher_dir, blobs, hash_queue,
                 download_hashmap, state, worker, map_lock, poisoned, task, fatal,
                 served, remote, hist, probe, load, walk, queue_lock, observer>>

\* finished_patching = true (line 372); the state guard is dropped (line 373).
FinishFlag ==
  /\ pc = "finflag"
  /\ state' = [state EXCEPT !.finished_patching = TRUE]
  /\ state_lock' = Unlock(state_lock)
  /\ pc' = "cleanup"
  /\ UNCHANGED <<mirrors, manifest, disk, patcher_dir, blobs, hash_queue,
                 download_hashmap, worker, map_lock, poisoned, task, fatal, served,
                 remote, hist, probe, load, walk, queue_lock, observer>>

\* Line 375 as RemovePatcherDir; download_files returns or unwinds, which
\* drops the download_hashmap guard (line 376).
RemoveDirReturn ==
  /\ pc = "cleanup"
  /\ IF patcher_dir
       THEN pc' = "report" /\ patcher_dir' = FALSE /\ blobs' = << >>
       ELSE pc' = "panic" /\ UNCHANGED <<patcher_dir, blobs>>
  /\ map_lock' = 0
  /\ UNCHANGED <<mirrors, manifest, disk, hash_queue, download_hashmap, state, worker,
                 poisoned, task, fatal, served, remote, hist, probe, load, walk,
                 state_lock, queue_lock, observer>>

\* download(), line 144: self.state.lock().unwrap() for the final report.
ReportLock ==
  /\ pc = "report"
  /\ state_lock = "free"
  /\ state_lock' = "main"
  /\ pc' = "reporting"
  /\ UNCHANGED <<mirrors, manifest, disk, patcher_dir, blobs, hash_queue,
                 download_hashmap, state, worker, map_lock, poisoned, task, fatal,
                 served, remote, hist, probe, load, walk, queue_lock, observer>>

\* Lines 145-147: the sizes are printed, the guard is dropped, download()
\* returns.
ReportDone ==
  /\ pc = "reporting"
  /\ state_lock' = Unlock(state_lock)
  /\ pc' = "done"
  /\ UNCHANGED <<mirrors, manifest, disk, patcher_dir, blobs, hash_queue,
                 download_hashmap, state, worker, map_lock, poisoned, task, fatal,
                 served, remote, hist, probe, load, walk, queue_lock, observer>>

\* --------------------------------------------------------------- test_mirrors
\* Speeds are f64 in the source. Every duration of Durations divides
\* ProbeBytes, so the quotient is exact; a duration of 0 ms gives +inf, which
\* is above four times every finite speed and for which inf / 4 = inf.
Infinity == 8 * ProbeBytes
Unprobed(n) == [i \in 1..n |-> [address |-> i, speed |-> PlaceholderSpeed, enabled |-> FALSE]]
Outcomes ==
  {[kind |-> k, duration |-> 0] : k \in {"error", "timeout", "no-length", "wrong-length"}}
    \cup {[kind |-> "ok", duration |-> d] : d \in Durations}
SpeedOf(duration) == IF duration = 0 THEN Infinity ELSE ProbeBytes \div duration

\* Lines 131-174: the value one probe thread returns.
Probed(mirror, outcome) ==
  IF outcome.kind = "ok"
    THEN [address |-> mirror.address, speed |-> SpeedOf(outcome.duration), enabled |-> TRUE]
    ELSE [address |-> mirror.address, speed |-> 0, enabled |-> FALSE]

ProbeThread(i) ==
  /\ probe.at = "joining"
  /\ i \in 1..Len(mirrors)
  /\ i \notin DOMAIN probe.result
  /\ \E outcome \in Outcomes :
       probe' = [probe EXCEPT !.result =
                   (i :> [mirror |-> Probed(probe.spawned[i], outcome),
                          outcome |-> outcome]) @@ @]
  /\ UNCHANGED <<pc, mirrors, manifest, disk, patcher_dir, blobs, hash_queue,
                 download_hashmap, state, worker, map_lock, poisoned, task, fatal,
                 served, remote, hist,
                 load, walk,
                 state_lock, queue_lock, observer>>

\* Lines 179-191: handles are joined in spawn order; the result replaces the
\* first registry entry with an equal address.
FirstWithAddress(a) ==
  LET S == {i \in 1..Len(mirrors) : mirrors[i].address = a}
  IN IF S = {} THEN 0 ELSE CHOOSE i \in S : \A j \in S : i <= j

JoinHandle ==
  /\ probe.at = "joining"
  /\ probe.joined < Len(mirrors)
  /\ probe.joined + 1 \in DOMAIN probe.result
  /\ LET m == probe.result[probe.joined + 1].mirror
         i == FirstWithAddress(m.address)
     IN mirrors' = IF i = 0 THEN mirrors ELSE [mirrors EXCEPT ![i] = m]
  /\ probe' = [probe EXCEPT !.joined = @ + 1]
  /\ UNCHANGED <<pc, manifest, disk, patcher_dir, blobs, hash_queue, download_hashmap,
                 state, worker, map_lock, poisoned, task, fatal, served, remote, hist,
                 load, walk,
                 state_lock, queue_lock, observer>>

\* Line 193: a stable sort by speed, fastest first.
RECURSIVE InsertBySpeed(_, _)
InsertBySpeed(m, sorted) ==
  IF sorted = << >> THEN <<m>>
  ELSE IF Head(sorted).speed >= m.speed
         THEN <<Head(sorted)>> \o InsertBySpeed(m, Tail(sorted))
         ELSE <<m>> \o sorted

RECURSIVE SortBySpeed(_)
SortBySpeed(ms) ==
  IF ms = << >> THEN << >>
  ELSE InsertBySpeed(ms[Len(ms)], SortBySpeed(SubSeq(ms, 1, Len(ms) - 1)))

\* Line 196: elem.speed < best_speed / 4.0.
NeverSlow(speed, best_speed) == FALSE
Slow(speed, best_speed) == 4 * speed < best_speed

\* Lines 192-200.
Rank ==
  /\ probe.at = "joining"
  /\ probe.joined = Len(mirrors)
  /\ mirrors' =
       IF Len(mirrors) > 1
         THEN LET sorted == SortBySpeed(mirrors)
                  best_speed == sorted[1].speed
              IN [i \in 1..Len(sorted) |->
                    IF Slow(sorted[i].speed, best_speed)
                      THEN [sorted[i] EXCEPT !.enabled = FALSE]
                      ELSE sorted[i]]
         ELSE mirrors
  /\ probe' = [probe EXCEPT !.at = "ranked"]
  /\ UNCHANGED <<pc, manifest, disk, patcher_dir, blobs, hash_queue, download_hashmap,
                 state, worker, map_lock, poisoned, task, fatal, served, remote, hist,
                 load, walk,
                 state_lock, queue_lock, observer>>

\* ------------------------------------------- get_mirrors' return, manifest load
\* mirrors.rs lines 96-100: `self.test_mirrors()?` never fails (test_mirrors
\* returns Ok(()) in every branch) and get_mirrors then returns Ok(()).  The
\* handles and thread results are locals of test_mirrors and are gone by then.
GetMirrorsResult == "Ok"

GetMirrorsReturn ==
  /\ probe.at = "ranked"
  /\ probe' = [at |-> "returned", result |-> << >>, joined |-> 0, spawned |-> << >>,
               ret |-> GetMirrorsResult]
  /\ UNCHANGED <<pc, mirrors, manifest, disk, patcher_dir, blobs, hash_queue,
                 download_hashmap, state, worker, map_lock, poisoned, task, fatal,
                 served, remote, hist, load, walk,
                 state_lock, queue_lock, observer>>

\* The digest recorded from the release descriptor and the digest of what a
\* mirror serves for instructions.json.
InstructionsHash == <<"sha256", "instructions.json">>
ManifestDigest(answer) ==
  IF answer = "ok" THEN InstructionsHash ELSE <<"sha256", "other text">>

\* Lines 173-175: &hash != instructions_hash panics.
AnyHash(hash) == TRUE
HashesMatch(hash) == hash = InstructionsHash

\* Lines 179-182: `for _i in 0..retry { self.mirrors.remove(0) }`.
RemoveNone(ms, retry) == ms
RemoveFailed(ms, retry) == SubSeq(ms, retry + 1, Len(ms))

\* download() lines 134-136 (and retrieve_instructions lines 156-158).
LoadEmpty ==
  /\ pc = "start"
  /\ probe.at = "returned"
  /\ Len(mirrors) = 0
  /\ pc' = "panic"
  /\ UNCHANGED <<mirrors, manifest, disk, patcher_dir, blobs, hash_queue,
                 download_hashmap, state, worker, map_lock, poisoned, task, fatal,
                 served, remote, hist, probe, load, walk,
                 state_lock, queue_lock, observer>>

\* One iteration of `for retry in 0..3` (lines 160-188).  The closure panics
\* when mirrors[retry] does not exist, when the GET fails and when the digest
\* differs; catch_unwind turns each into a failed attempt.
RetrieveAttempt ==
  /\ pc = "start"
  /\ probe.at = "returned"
  /\ Len(mirrors) > 0
  /\ load.retry < 3
  /\ LET retry == load.retry
         exists == retry + 1 <= Len(mirrors)
     IN \E answer \in (IF exists THEN Answers(mirrors[retry + 1].address) ELSE {"none"}) :
          LET tried == IF exists
                         THEN Append(load.tried, [mirror |-> mirrors[retry + 1],
                                                  answer |-> answer])
                         ELSE load.tried
              is_ok == answer \in {"ok", "corrupt"} /\ HashesMatch(ManifestDigest(answer))
          IN IF is_ok
               THEN /\ load' = [retry |-> retry, tried |-> tried,
                                text |-> ManifestDigest(answer), before |-> mirrors]
                    /\ mirrors' = RemoveFailed(mirrors, retry)
                    /\ pc' = "process"
                    /\ worker' = [i \in Paths |->
                         [IdleWorker EXCEPT !.pc = IF i \in DOMAIN manifest
                                                     THEN "open" ELSE "done"]]
               ELSE /\ load' = [load EXCEPT !.retry = @ + 1, !.tried = tried,
                                            !.before = mirrors]
                    /\ pc' = IF retry = 2 THEN "panic" ELSE pc
                    /\ UNCHANGED <<mirrors, worker>>
  /\ UNCHANGED <<manifest, disk, patcher_dir, blobs, hash_queue, download_hashmap,
                 state, map_lock, poisoned, task, fatal, served, remote, hist, probe,
                 walk,
                 state_lock, queue_lock, observer>>

\* ------------------------------------------------- the part loop's ranges
\* Lines 421-427 for one file size, from part 0: each iteration's
\* Range: bytes=<bytes_start>-<bytes_end>.
WalkPart ==
  /\ walk.file_size > 0
  /\ walk.part_int < parts_amount(walk.file_size)
  /\ walk' = [walk EXCEPT
       !.part_int = @ + 1,
       !.ranges = Append(@, [start |-> bytes_start(walk.part_int),
                             end |-> bytes_end(walk.part_int, walk.file_size)])]
  /\ UNCHANGED <<pc, mirrors, manifest, disk, patcher_dir, blobs, hash_queue,
                 download_hashmap, state, worker, map_lock, poisoned, task, fatal,
                 served, remote, hist, probe, load,
                 state_lock, queue_lock, observer>>

Next ==
  \/ Download
  \/ \E i \in Paths : ProcOpen(i)
  \/ \E i \in Paths : MapLock(i)
  \/ \E i \in Paths : MapInsert(i)
  \/ \E i \in Paths : MapPush(i)
  \/ ProcJoin
  \/ \E j \in Paths : HashEntry(j)
  \/ HashJoin
  \/ \E k \in DOMAIN task : DownloadAttempt(k)
  \/ \E k \in DOMAIN task : \E x \in Paths : ApplyPatch(k, x)
  \/ \E k \in DOMAIN task : RemoveBlob(k)
  \/ FinishPatching
  \/ RemovePatcherDir

Spec == Init /\ [][Next]_vars

\* The planner alone, on manifests of NumInstr instructions.
InitPlan ==
  /\ mirrors = Registry(1)
  /\ remote = [a \in 1..Len(mirrors) |-> "any"]
  /\ Inputs(Paths)
  /\ patcher_dir = TRUE
  /\ Fresh

NextPlan ==
  \/ Download
  \/ \E i \in Paths : ProcOpen(i)
  \/ \E i \in Paths : MapLock(i)
  \/ \E i \in Paths : MapInsert(i)
  \/ \E i \in Paths : MapPush(i)
  \/ ProcJoin
  \/ \E j \in Paths : HashEntry(j)
  \/ HashJoin

SpecPlan == InitPlan /\ [][NextPlan]_vars

\* One instruction, download_file statement by statement, with restarts.
InitDl ==
  /\ mirrors = Registry(NumMirrors)
  /\ remote = [a \in 1..Len(mirrors) |-> "any"]
  /\ Inputs(OnePath)
  /\ patcher_dir = TRUE
  /\ Fresh

NextDl ==
  \/ Download
  \/ \E i \in Paths : ProcOpen(i)
  \/ \E i \in Paths : MapLock(i)
  \/ \E i \in Paths : MapInsert(i)
  \/ \E i \in Paths : MapPush(i)
  \/ ProcJoin
  \/ \E j \in Paths : HashEntry(j)
  \/ HashJoin
  \/ \E k \in DOMAIN task : DlBegin(k)
  \/ \E k \in DOMAIN task : DlGet(k)
  \/ \E k \in DOMAIN task : DlSentinel(k)
  \/ \E k \in DOMAIN task : DlCreditPart(k)
  \/ \E k \in DOMAIN task : DlEnd(k)
  \/ \E k \in DOMAIN task : \E x \in Paths : ApplyPatch(k, x)
  \/ \E k \in DOMAIN task : RemoveBlob(k)
  \/ FinishPatching
  \/ RemovePatcherDir
  \/ Restart

SpecDl == InitDl /\ [][NextDl]_vars

\* get_mirrors has filled the registry (mirrors.rs lines 84-95) and
\* test_mirrors has spawned one probe thread per mirror.
InitMirrors ==
  /\ \E n \in 0..ProbedMirrors :
       /\ mirrors = Unprobed(n)
       /\ remote = [a \in 1..n |-> "any"]
       /\ probe = [at |-> "joining", result |-> << >>, joined |-> 0,
                   spawned |-> Unprobed(n)]
  /\ manifest = << >>
  /\ disk = << >>
  /\ patcher_dir = FALSE
  /\ pc = "start"
  /\ blobs = << >>
  /\ hash_queue = << >>
  /\ download_hashmap = << >>
  /\ state = Progress
  /\ worker = [i \in Paths |-> IdleWorker]
  /\ map_lock = 0
  /\ poisoned = FALSE
  /\ task = << >>
  /\ fatal = FALSE
  /\ served = 0
  /\ hist = [restarts |-> 0, complete |-> << >>, interrupted |-> << >>]
  /\ load = [retry |-> 0, tried |-> << >>, text |-> None, before |-> << >>]
  /\ walk = [file_size |-> 0, part_int |-> 0, ranges |-> << >>]
  /\ state_lock = "free"
  /\ queue_lock = "free"
  /\ observer = [pc |-> "unspawned", finished_hash |-> FALSE, finished_patching |-> FALSE]

NextMirrors ==
  \/ \E i \in 1..ProbedMirrors : ProbeThread(i)
  \/ JoinHandle
  \/ Rank

SpecMirrors == InitMirrors /\ [][NextMirrors]_vars

\* One instruction and as many mirrors as download_files has attempts; each
\* mirror behaves the same way for the whole run.
InitFallback ==
  /\ mirrors = Registry(MaxAttempts)
  /\ remote \in [1..MaxAttempts -> {"ok", "corrupt", "down"}]
  /\ Inputs(OnePath)
  /\ patcher_dir = TRUE
  /\ Fresh

SpecFallback == InitFallback /\ [][Next]_vars

\* From the registry as get_mirrors filled it to the end of download(): the
\* probes, the manifest load attempt by attempt, planning and downloading of
\* one missing file.
InitLoad ==
  /\ \E n \in 0..ProbedMirrors :
       /\ mirrors = Unprobed(n)
       /\ remote = [a \in 1..n |-> "any"]
       /\ probe = [at |-> "joining", result |-> << >>, joined |-> 0,
                   spawned |-> Unprobed(n)]
  /\ manifest = <<Instruction(1, None, <<1>>, FALSE)>>
  /\ disk = << >>
  /\ patcher_dir = TRUE
  /\ pc = "start"
  /\ blobs = << >>
  /\ hash_queue = << >>
  /\ download_hashmap = << >>
  /\ state = Progress
  /\ worker = [i \in Paths |-> IdleWorker]
  /\ map_lock = 0
  /\ poisoned = FALSE
  /\ task = << >>
  /\ fatal = FALSE
  /\ served = 0
  /\ hist = [restarts |-> 0, complete |-> << >>, interrupted |-> << >>]
  /\ load = [retry |-> 0, tried |-> << >>, text |-> None, before |-> << >>]
  /\ walk = [file_size |-> 0, part_int |-> 0, ranges |-> << >>]
  /\ state_lock = "free"
  /\ queue_lock = "free"
  /\ observer = [pc |-> "unspawned", finished_hash |-> FALSE, finished_patching |-> FALSE]

NextLoad ==
  \/ \E i \in 1..ProbedMirrors : ProbeThread(i)
  \/ JoinHandle
  \/ Rank
  \/ GetMirrorsReturn
  \/ LoadEmpty
  \/ RetrieveAttempt
  \/ \E i \in Paths : ProcOpen(i)
  \/ \E i \in Paths : MapLock(i)
  \/ \E i \in Paths : MapInsert(i)
  \/ \E i \in Paths : MapPush(i)
  \/ ProcJoin
  \/ HashJoin
  \/ \E k \in DOMAIN task : DownloadAttempt(k)
  \/ \E k \in DOMAIN task : \E x \in Paths : ApplyPatch(k, x)
  \/ \E k \in DOMAIN task : RemoveBlob(k)
  \/ FinishPatching
  \/ RemovePatcherDir

SpecLoad == InitLoad /\ [][NextLoad]_vars

\* download_file's part loop over file sizes around the multiples of part_size.
Sizes ==
  {n \in {k * part_size + d : k \in 0..MaxWholeParts,
                              d \in Offsets \cup {part_size \div 2}} : n >= 1}

InitParts ==
  /\ walk \in {[file_size |-> n, part_int |-> 0, ranges |-> << >>] : n \in Sizes}
  /\ mirrors = Registry(0)
  /\ remote = << >>
  /\ manifest = << >>
  /\ disk = << >>
  /\ patcher_dir = FALSE
  /\ pc = "start"
  /\ blobs = << >>
  /\ hash_queue = << >>
  /\ download_hashmap = << >>
  /\ state = Progress
  /\ worker = [i \in Paths |-> IdleWorker]
  /\ map_lock = 0
  /\ poisoned = FALSE
  /\ task = << >>
  /\ fatal = FALSE
  /\ served = 0
  /\ hist = [restarts |-> 0, complete |-> << >>, interrupted |-> << >>]
  /\ probe = [at |-> "ranked", result |-> << >>, joined |-> 0, spawned |-> << >>]
  /\ load = [retry |-> 0, tried |-> << >>, text |-> None, before |-> << >>]
  /\ state_lock = "free"
  /\ queue_lock = "free"
  /\ observer = [pc |-> "unspawned", finished_hash |-> FALSE, finished_patching |-> FALSE]

NextParts == WalkPart

SpecParts == InitParts /\ [][NextParts]_vars

\* One instruction, apply_patch statement by statement, with restarts.
InitPatch ==
  /\ mirrors = Registry(NumMirrors)
  /\ remote = [a \in 1..Len(mirrors) |-> "any"]
  /\ Inputs(OnePath)
  /\ patcher_dir = TRUE
  /\ Fresh

NextPatch ==
  \/ Download
  \/ \E i \in Paths : ProcOpen(i)
  \/ \E i \in Paths : MapLock(i)
  \/ \E i \in Paths : MapInsert(i)
  \/ \E i \in Paths : MapPush(i)
  \/ ProcJoin
  \/ \E j \in Paths : HashEntry(j)
  \/ HashJoin
  \/ \E k \in DOMAIN task : DownloadAttempt(k)
  \/ \E k \in DOMAIN task : \E x \in Paths : PatchBegin(k, x)
  \/ \E k \in DOMAIN task : \E x \in Paths : PatchDecodeStart(k, x)
  \/ \E k \in DOMAIN task : \E x \in Paths : PatchDecodeEnd(k, x)
  \/ \E k \in DOMAIN task : \E x \in Paths : PatchRemoveSource(k, x)
  \/ \E k \in DOMAIN task : \E x \in Paths : PatchCheck(k, x)
  \/ \E k \in DOMAIN task : RemoveBlob(k)
  \/ FinishPatching
  \/ RemovePatcherDir
  \/ Restart

SpecPatch == InitPatch /\ [][NextPatch]_vars

\* The locks: the engine with every lock() as a step and poll_progress's
\* thread running beside it (the test at lines 530-537 calls poll_progress
\* before download).  patcher/ may hold one full-replacement blob that an
\* earlier run left: complete, or in progress with part 0 and part 1 written.
AllKeys ==
  {FullKey(<<n>>) : n \in Hashes}
    \cup {DeltaKey(<<n>>, <<o>>) : n \in Hashes, o \in OldHashes}
LeftBlobs(key) ==
  {[len |-> BlobSizeOf(key), sentinel |-> 0,
    parts |-> [p \in 1..parts_amount(BlobSizeOf(key)) |-> "ok"]],
   [len |-> BlobSizeOf(key) + 4, sentinel |-> 1,
    parts |-> [p \in 1..parts_amount(BlobSizeOf(key)) |->
                 IF p <= 2 THEN "ok" ELSE "zero"]]}

\* The manifests taken: every instruction updates an old version to another,
\* with or without a published delta.
IsUpdate(ins) ==
  is_some(ins.old_hash) /\ is_some(ins.new_hash) /\ ins.old_hash # ins.new_hash
KeysOf(m) == {FullKey(m[p].new_hash) : p \in DOMAIN m}

InitLocks ==
  /\ mirrors = Registry(1)
  /\ remote \in [1..Len(mirrors) -> {"ok", "corrupt", "down"}]
  /\ Inputs(RunPaths)
  /\ \A p \in RunPaths : IsUpdate(manifest[p])
  /\ patcher_dir = TRUE
  /\ pc = "start"
  /\ blobs \in {<< >>} \cup UNION {{(k :> b) : b \in LeftBlobs(k)} : k \in KeysOf(manifest)}
  /\ hash_queue = << >>
  /\ download_hashmap = << >>
  /\ state = Progress
  /\ worker = [i \in Paths |-> IdleWorker]
  /\ map_lock = 0
  /\ poisoned = FALSE
  /\ task = << >>
  /\ fatal = FALSE
  /\ served = 0
  /\ hist = [restarts |-> 0, complete |-> << >>, interrupted |-> << >>]
  /\ probe = [at |-> "ranked", result |-> << >>, joined |-> 0, spawned |-> << >>]
  /\ load = [retry |-> 0, tried |-> << >>, text |-> None, before |-> << >>]
  /\ walk = [file_size |-> 0, part_int |-> 0, ranges |-> << >>]
  /\ state_lock = "free"
  /\ queue_lock = "free"
  /\ observer = [pc |-> "sleep", finished_hash |-> FALSE, finished_patching |-> FALSE]

NextLocks ==
  \/ Download
  \/ ObsLock
  \/ ObsRead
  \/ \E i \in Paths : ProcOpenQ(i)
  \/ \E i \in Paths : QueueLock(i)
  \/ \E i \in Paths : QueuePush(i)
  \/ \E i \in Paths : MapLock(i)
  \/ \E i \in Paths : MapInsertS(i)
  \/ \E i \in Paths : StateLock(i)
  \/ \E i \in Paths : StateAdd(i)
  \/ \E i \in Paths : MapPush(i)
  \/ ProcJoin
  \/ CheckLock
  \/ \E j \in Paths : HashEntryQ(j)
  \/ HashJoinQ
  \/ FinishHashLock
  \/ FinishHash
  \/ FilesLock
  \/ \E k \in DOMAIN task : DlBeginS(k)
  \/ \E k \in DOMAIN task : DlStateLock(k)
  \/ \E k \in DOMAIN task : DlStateAdd(k)
  \/ \E k \in DOMAIN task : DlGet(k)
  \/ \E k \in DOMAIN task : DlSentinel(k)
  \/ \E k \in DOMAIN task : DlCreditLock(k)
  \/ \E k \in DOMAIN task : DlCreditPartS(k)
  \/ \E k \in DOMAIN task : DlEnd(k)
  \/ \E k \in DOMAIN task : \E x \in Paths : ApplyPatch(k, x)
  \/ \E k \in DOMAIN task : RemoveBlob(k)
  \/ FilesJoin
  \/ FinishLock
  \/ FinishFlag
  \/ RemoveDirReturn
  \/ ReportLock
  \/ ReportDone

SpecLocks == InitLocks /\ [][NextLocks]_vars

\* Scheduling.  Every thread is an OS thread (rayon's pool, the spawned
\* poller, the caller): a thread whose next statement stays possible
\* eventually runs it.  A state.lock() that is possible again and again is
\* eventually granted to one of the threads asking: the only thread that
\* takes the mutex without end is the poller, which sleeps 500 ms between
\* two holds of a few instructions.
WorkerStep(i) ==
  \/ ProcOpenQ(i)
  \/ QueueLock(i)
  \/ QueuePush(i)
  \/ MapLock(i)
  \/ MapInsertS(i)
  \/ StateAdd(i)
  \/ MapPush(i)
  \/ HashEntryQ(i)

TaskStep(k) ==
  /\ k \in DOMAIN task
  /\ \/ DlBeginS(k)
     \/ DlStateAdd(k)
     \/ DlGet(k)
     \/ DlSentinel(k)
     \/ DlCreditPartS(k)
     \/ DlEnd(k)
     \/ \E x \in Paths : ApplyPatch(k, x)
     \/ RemoveBlob(k)

MainStep ==
  \/ Download
  \/ ProcJoin
  \/ CheckLock
  \/ HashJoinQ
  \/ FinishHash
  \/ FilesLock
  \/ FilesJoin
  \/ FinishFlag
  \/ RemoveDirReturn
  \/ ReportDone

StateAcquire ==
  \/ \E i \in Paths : StateLock(i)
  \/ \E k \in DOMAIN task : DlStateLock(k)
  \/ \E k \in DOMAIN task : DlCreditLock(k)
  \/ FinishHashLock
  \/ FinishLock
  \/ ReportLock

LockFairness ==
  /\ WF_vars(ObsLock)
  /\ WF_vars(ObsRead)
  /\ WF_vars(MainStep)
  /\ \A i \in Paths : WF_vars(WorkerStep(i))
  /\ \A k \in AllKeys : WF_vars(TaskStep(k))
  /\ SF_vars(StateAcquire)

SpecLocksFair == SpecLocks /\ LockFairness

\* ------------------------------------------------------------------- claims
RECURSIVE SumSizes(_)
SumSizes(K) ==
  IF K = {} THEN 0
  ELSE LET k == CHOOSE x \in K : TRUE
       IN download_hashmap[k].file_size + SumSizes(K \ {k})

Wanted(p) == is_some(manifest[p].new_hash)
UpToDate(p) == Exists(p) /\ get_hash(p) = manifest[p].new_hash
AllAnswersOk == \A k \in DOMAIN task : \A i \in 1..Len(task[k].log) : task[k].log[i] = "ok"
NoPatchYet == \A k \in DOMAIN task : task[k].applied = {}
EntriesOf(p) ==
  {kx \in UNION {{<<k, x>> : x \in 1..Len(download_hashmap[k].patch_entries)} :
                   k \in DOMAIN download_hashmap} :
     download_hashmap[kx[1]].patch_entries[kx[2]].target_path = p}

\* C1: when download() has returned, every file whose instruction has a
\* new_hash exists and its SHA-256 is that new_hash.
C1_Integrity ==
  pc = "done" => \A p \in DOMAIN manifest : Wanted(p) => UpToDate(p)

C1_Witness ==
  /\ pc = "done"
  /\ \E k \in DOMAIN task : task[k].applied # {}
  /\ \A p \in DOMAIN manifest : Wanted(p)

\* C2: a file that hashes to old_hash is planned as one delta task with key
\* new_hash_from_old_hash whose Patch Entry has a source and expects the
\* target to hash to new_hash, so that a decoder output hashing to new_hash
\* passes the verification after the patch.
C2_DeltaPath ==
  \A k \in DOMAIN download_hashmap :
    \A x \in 1..Len(download_hashmap[k].patch_entries) :
      LET pe == download_hashmap[k].patch_entries[x]
          ins == manifest[pe.target_path]
      IN pe.has_source =>
           /\ k = DeltaKey(ins.new_hash, ins.old_hash)
           /\ pe.target_hash = ins.new_hash
           /\ (/\ k \in DOMAIN task
               /\ Len(download_hashmap[k].patch_entries) = 1
               /\ x \in task[k].applied
               /\ UpToDate(pe.target_path)) => ~task[k].failed

\* C3: a fresh install (no target file, no patcher/ directory, two new files
\* with distinct hashes, mirrors answering correctly) plans two full-replace
\* tasks and never fails; when it has returned both targets have their
\* new_hash and patcher/ does not exist.
TwoNewFiles ==
  /\ \A p \in DOMAIN manifest : Wanted(p) /\ ~is_some(manifest[p].old_hash)
  /\ \A p, q \in DOMAIN manifest : p # q => manifest[p].new_hash # manifest[q].new_hash

C3_FreshInstall ==
  (/\ TwoNewFiles
   /\ state.finished_hash
   /\ hash_queue = << >>
   /\ ~patcher_dir
   /\ AllAnswersOk)
  => /\ ~fatal
     /\ Cardinality(DOMAIN download_hashmap) = 2
     /\ \A k \in DOMAIN download_hashmap :
          \A x \in 1..Len(download_hashmap[k].patch_entries) :
            ~download_hashmap[k].patch_entries[x].has_source
     /\ pc = "done" => \A p \in DOMAIN manifest : UpToDate(p)

\* C4: when planning has ended, total_bytes is the sum of file_size over the
\* keys of the Download Task table, however the planner workers interleave
\* and however many instructions share a key.
C4_TotalBytes ==
  state.finished_hash => state.download_size[2] = SumSizes(DOMAIN download_hashmap)

C4_Witness ==
  /\ state.finished_hash
  /\ \E k \in DOMAIN download_hashmap : Len(download_hashmap[k].patch_entries) >= 2

\* C5: after planning every instruction that needs a download has exactly
\* one Patch Entry, filed under the one task of its key (new_hash, or
\* new_hash_from_old_hash when the file on disk has the old_hash), and an
\* instruction that needs none has no entry; a task downloaded without retry
\* fetched each part of its blob once, and a run without retry was served
\* the sum of the tasks' file_size.
NeedsAction(p) == Wanted(p) /\ ~UpToDate(p)
ExpectedKey(p) ==
  IF Exists(p) /\ is_some(manifest[p].old_hash) /\ get_hash(p) = manifest[p].old_hash
    THEN DeltaKey(manifest[p].new_hash, manifest[p].old_hash)
    ELSE FullKey(manifest[p].new_hash)

C5_Dedup ==
  /\ (state.finished_hash /\ NoPatchYet) =>
       \A p \in DOMAIN manifest :
         IF NeedsAction(p)
           THEN /\ Cardinality(EntriesOf(p)) = 1
                /\ \A kx \in EntriesOf(p) : kx[1] = ExpectedKey(p)
           ELSE EntriesOf(p) = {}
  /\ \A k \in DOMAIN task :
       (task[k].pc \in {"patch", "done"} /\ task[k].log = <<"ok">>) =>
         task[k].gets = parts_amount(download_hashmap[k].file_size)
  /\ (pc = "done" /\ \A k \in DOMAIN task : task[k].log = <<"ok">>) =>
       served = SumSizes(DOMAIN download_hashmap)

C5_Witness ==
  /\ pc = "done"
  /\ \E k \in DOMAIN download_hashmap :
       /\ Len(download_hashmap[k].patch_entries) = 2
       /\ task[k].log = <<"ok">>

\* C10: a run on an installation whose files all hash to their new_hash
\* creates no download task, downloads and patches nothing, leaves
\* total_bytes at 0, and has set finished_hash and finished_patching when it
\* ends.
C10_Idempotent ==
  (state.finished_hash /\ NoPatchYet /\ \A p \in DOMAIN manifest : Wanted(p) => UpToDate(p))
  => /\ DOMAIN download_hashmap = {}
     /\ state.download_size = <<0, 0>>
     /\ served = 0
     /\ pc \in {"done", "panic"} => state.finished_patching

C10_Witness ==
  /\ pc \in {"done", "panic"}
  /\ state.finished_hash /\ state.finished_patching
  /\ \A p \in DOMAIN manifest : Wanted(p) /\ UpToDate(p)
  /\ DOMAIN download_hashmap = {}

\* C6: when a run that was interrupted after k completed parts of a blob
\* (1 <= k < part_count) is started again, download_file starts its part
\* loop at part k and credits k * part_size before the first new part.
C6_Resume ==
  \A k \in DOMAIN task :
    (/\ task[k].begun
     /\ k \in DOMAIN hist.interrupted
     /\ hist.interrupted[k] >= 1
     /\ hist.interrupted[k] < parts_amount(download_hashmap[k].file_size))
    => /\ task[k].start_part = hist.interrupted[k]
       /\ task[k].start_credit = hist.interrupted[k] * part_size

\* C7: in an in-progress blob whose sentinel holds s, every part below s has
\* been written with served bytes; the payload of a part is on disk before
\* its sentinel is written, and the sentinel before the part is credited.
C7_SentinelSafety ==
  /\ \A key \in DOMAIN blobs :
       InProgress(key) =>
         \A p \in 0..(blobs[key].sentinel - 1) : blobs[key].parts[p + 1] # "zero"
  /\ \A k \in DOMAIN task :
       /\ task[k].pc \in {"sentinel", "credit"} => blobs[k].parts[task[k].part + 1] # "zero"
       /\ task[k].pc = "credit" => blobs[k].sentinel = task[k].part

C7_Witness ==
  /\ hist.restarts = 1
  /\ \E k \in DOMAIN task :
       /\ task[k].pc = "credit"
       /\ blobs[k].sentinel = 1
       /\ task[k].start_part = 1

\* C8: after test_mirrors has probed and ranked, no enabled mirror has a
\* speed below one quarter of the highest speed in the registry, and a mirror
\* whose probe failed, timed out, had no Content-Length or a Content-Length
\* other than 10000 is not enabled.
BestSpeed == CHOOSE b \in {mirrors[i].speed : i \in 1..Len(mirrors)} :
               \A i \in 1..Len(mirrors) : mirrors[i].speed <= b
ProbeFailed(a) == probe.result[a].outcome.kind # "ok"

C8_Admission ==
  (probe.at = "ranked" /\ probe.joined = Len(mirrors)) =>
    \A i \in 1..Len(mirrors) :
      /\ mirrors[i].enabled => 4 * mirrors[i].speed >= BestSpeed
      /\ (mirrors[i].address \in DOMAIN probe.result /\ ProbeFailed(mirrors[i].address))
           => ~mirrors[i].enabled

C8_Witness ==
  /\ probe.at = "ranked"
  /\ Len(mirrors) = 3
  /\ probe.joined = 3
  /\ mirrors[1].enabled
  /\ mirrors[2].speed > 0 /\ ~mirrors[2].enabled
  /\ ProbeFailed(mirrors[3].address)

\* C9: for a download task whose rank-0 mirror always serves a blob with a
\* wrong hash, the download succeeds if and only if one of the mirrors at
\* ranks 1..4 serves the correct blob; after a hash mismatch the next attempt
\* downloads the blob again from part 0 on the next-ranked mirror; when all
\* five attempts fail the task is fatal.
Served(rank) == remote[mirrors[rank + 1].address]
AttemptsOver(k) == task[k].pc # "download"
Succeeded(k) == task[k].pc \in {"patch", "done"} \/ task[k].applied # {}

C9_Fallback ==
  \A k \in DOMAIN task :
    (Len(mirrors) >= MaxAttempts /\ Served(0) = "corrupt" /\ AttemptsOver(k)) =>
      /\ Succeeded(k) <=> \E rank \in 1..(MaxAttempts - 1) : Served(rank) = "ok"
      /\ \A a \in 1..Len(task[k].log) : task[k].log[a] = Served(a - 1)
      /\ (\A a \in 1..Len(task[k].log) : task[k].log[a] # "down") =>
           task[k].gets = Len(task[k].log) * parts_amount(download_hashmap[k].file_size)
      /\ (\A a \in 1..MaxAttempts : Served(a - 1) = "corrupt") =>
           (task[k].pc = "panicked" /\ fatal)

\* C11: the Progress State is monotone for a concurrent observer: neither
\* downloaded_bytes nor total_bytes ever decreases; once finished_hash is true
\* total_bytes and the task table no longer change; finished_hash and
\* finished_patching only go from false to true.
C11_Monotone ==
  [][/\ state'.download_size[1] >= state.download_size[1]
     /\ state'.download_size[2] >= state.download_size[2]
     /\ state.finished_hash =>
          /\ state'.finished_hash
          /\ state'.download_size[2] = state.download_size[2]
          /\ download_hashmap' = download_hashmap
     /\ state.finished_patching => state'.finished_patching]_vars

C11_Witness ==
  /\ state.finished_hash
  /\ state.finished_patching
  /\ state.download_size[1] > 0
  /\ state.download_size[2] > 0
  /\ Cardinality(DOMAIN download_hashmap) = 2

\* C12: if after probing no mirror of the registry is enabled, get_mirrors
\* fails with an error, and no manifest fetch and no download is attempted
\* afterwards.
AsProbed == IF load.before # << >> THEN load.before ELSE mirrors
NoMirrorEnabled ==
  Len(AsProbed) >= 1 /\ \A i \in 1..Len(AsProbed) : ~AsProbed[i].enabled

C12_NoMirror ==
  (probe.at = "returned" /\ NoMirrorEnabled) =>
    /\ probe.ret = "Err"
    /\ load.tried = << >>
    /\ \A k \in DOMAIN task : task[k].log = << >>

\* C13: the planner is handed instructions only from a blob whose digest
\* equals instructions_hash; the loader asks the mirrors at ranks 0, 1, 2 in
\* that order and stops at the first attempt that verifies; when all three
\* attempts fail the operation is fatal and no instruction is processed.
PlannerStarted ==
  \/ pc \in {"process", "check", "download", "cleanup", "done"}
  \/ hash_queue # << >>
  \/ download_hashmap # << >>
  \/ \E i \in Paths : worker[i] # IdleWorker

C13_ManifestAcceptance ==
  /\ PlannerStarted =>
       /\ load.text = InstructionsHash
       /\ Len(load.tried) = load.retry + 1
       /\ load.tried[Len(load.tried)].answer = "ok"
  /\ \A i \in 1..Len(load.tried) :
       /\ load.tried[i].mirror = load.before[i]
       /\ i < Len(load.tried) => load.tried[i].answer # "ok"
  /\ load.retry = 3 => (pc = "panic" /\ ~PlannerStarted)

C13_Witness ==
  /\ load.text = InstructionsHash
  /\ Len(load.tried) = 3
  /\ load.tried[1].answer = "corrupt"
  /\ load.tried[2].answer = "down"
  /\ download_hashmap # << >>

\* C14: no manifest fetch and no blob download is ever issued to a mirror
\* whose enabled flag is false.
ManifestFetchesEnabled == \A i \in 1..Len(load.tried) : load.tried[i].mirror.enabled
BlobDownloadsEnabled ==
  \A k \in DOMAIN task : \A a \in 1..Len(task[k].log) : mirrors[a].enabled

C14_NeverDisabled == ManifestFetchesEnabled /\ BlobDownloadsEnabled

\* C15: a transport error during a blob download is a recoverable mirror
\* error: the worker goes on to the next-ranked mirror, and the task is
\* aborted only after five mirrors have failed for it.
DownloadAborted(k) == task[k].pc = "panicked" /\ task[k].applied = {}

C15_TransportRecoverable ==
  \A k \in DOMAIN task :
    (Len(mirrors) >= MaxAttempts /\ DownloadAborted(k)) =>
      /\ Len(task[k].log) = MaxAttempts
      /\ \A a \in 1..MaxAttempts : task[k].log[a] # "ok"

\* C16: when the manifest load succeeds at attempt r, none of the r mirrors
\* whose attempt failed is still in the registry, the mirror that served the
\* verified manifest is at rank 0, the other mirrors keep their order, and no
\* download attempt goes to a mirror that failed the manifest load.
FailedAtLoad == {load.before[i].address : i \in 1..load.retry}

C16_CumulativeRemoval ==
  load.text # None =>
    /\ \A j \in 1..Len(mirrors) : mirrors[j].address \notin FailedAtLoad
    /\ mirrors[1] = load.tried[load.retry + 1].mirror
    /\ mirrors = SubSeq(load.before, load.retry + 1, Len(load.before))
    /\ \A k \in DOMAIN task : \A a \in 1..Len(task[k].log) :
         mirrors[a].address \notin FailedAtLoad

C16_Witness ==
  /\ load.text # None
  /\ load.retry = 2
  /\ Len(load.before) = 3
  /\ \E k \in DOMAIN task : task[k].log = <<"ok">>

\* C17: for every file present on disk with digest h and an instruction with
\* new_hash N and optional old_hash O, planning yields no task if h = N;
\* otherwise a delta task with key N_from_O and a has_source Patch Entry if O
\* is present and h = O; otherwise a full-replace task with key N and a Patch
\* Entry without source.  Exactly one outcome applies, also when O = N.
EntryAt(kx) == download_hashmap[kx[1]].patch_entries[kx[2]]
OneEntry(p, key, src) ==
  /\ Cardinality(EntriesOf(p)) = 1
  /\ \A kx \in EntriesOf(p) : kx[1] = key /\ EntryAt(kx).has_source = src

OldAbsent(p) == manifest[p].old_hash = None
FullReplace(p) == OneEntry(p, FullKey(manifest[p].new_hash), FALSE)

C18_AsStated ==
  (state.finished_hash /\ NoPatchYet) =>
    \A p \in DOMAIN manifest :
      /\ (Exists(p) /\ OldAbsent(p) /\ Wanted(p)) => FullReplace(p)
      /\ (~Exists(p) /\ Wanted(p)) => FullReplace(p)
      /\ ~Wanted(p) => EntriesOf(p) = {}

\* C18, amended: as above, except that a file present on disk whose digest
\* already equals new_hash gets no task; it gets the full-replace download
\* only when its digest differs from new_hash.
C18_DiskState ==
  (state.finished_hash /\ NoPatchYet) =>
    \A p \in DOMAIN manifest :
      /\ (Exists(p) /\ OldAbsent(p) /\ Wanted(p)) =>
           IF get_hash(p) = manifest[p].new_hash
             THEN EntriesOf(p) = {} ELSE FullReplace(p)
      /\ (~Exists(p) /\ Wanted(p)) => FullReplace(p)
      /\ ~Wanted(p) => EntriesOf(p) = {}

C18_Witness ==
  /\ state.finished_hash
  /\ \E p, q \in DOMAIN manifest :
       /\ Exists(p) /\ OldAbsent(p) /\ Wanted(p)
       /\ get_hash(p) # manifest[p].new_hash /\ FullReplace(p)
       /\ Exists(q) /\ OldAbsent(q) /\ Wanted(q)
       /\ get_hash(q) = manifest[q].new_hash /\ EntriesOf(q) = {}

\* C19: for every file_size >= 1, part_count = ceil(file_size / part_size);
\* part p requests bytes_start = p * part_size to bytes_end =
\* min(bytes_start + part_size - 1, file_size - 1); the ranges are pairwise
\* disjoint, none reaches byte index file_size, and together they are exactly
\* [0, file_size - 1].
Min(a, b) == IF a < b THEN a ELSE b
CeilDiv(a, b) == (a + b - 1) \div b
PartCountIsCeil == parts_amount(walk.file_size) = CeilDiv(walk.file_size, part_size)
RangeStarts ==
  \A i \in 1..Len(walk.ranges) : walk.ranges[i].start = (i - 1) * part_size
RangeEnds ==
  \A i \in 1..Len(walk.ranges) :
    walk.ranges[i].end = Min(walk.ranges[i].start + part_size - 1, walk.file_size - 1)
RangesDisjoint ==
  \A i, j \in 1..Len(walk.ranges) : i < j => walk.ranges[i].end < walk.ranges[j].start
RangesBelowSentinel ==
  \A i \in 1..Len(walk.ranges) : walk.ranges[i].end < walk.file_size
RangesCover ==
  walk.part_int = parts_amount(walk.file_size) =>
    /\ Len(walk.ranges) >= 1
    /\ walk.ranges[1].start = 0
    /\ \A i \in 1..(Len(walk.ranges) - 1) :
         walk.ranges[i + 1].start = walk.ranges[i].end + 1
    /\ walk.ranges[Len(walk.ranges)].end = walk.file_size - 1

C19_PartRanges ==
  walk.file_size >= 1 =>
    /\ PartCountIsCeil
    /\ RangeStarts
    /\ RangeEnds
    /\ RangesDisjoint
    /\ RangesBelowSentinel
    /\ RangesCover

\* C20: under every interleaving of download and patch workers, no Patch
\* Entry of a task starts before the task's blob is fully downloaded and its
\* digest verified; the blob is deleted only after every Patch Entry of the
\* task has completed; a task touches no blob but its own.
BlobVerified(k) ==
  /\ k \in DOMAIN blobs
  /\ blobs[k].len = download_hashmap[k].file_size
  /\ blob_hash(blobs[k], k, download_hashmap[k].file_size) = download_hashmap[k].file_hash
BlobChanged(k) ==
  \/ (k \in DOMAIN blobs) # (k \in DOMAIN blobs')
  \/ k \in DOMAIN blobs /\ k \in DOMAIN blobs' /\ blobs'[k] # blobs[k]

PatchingOnVerifiedBlob ==
  \A k \in DOMAIN task :
    /\ task[k].pc = "patch" => BlobVerified(k)
    /\ task[k].applied # {} =>
         /\ task[k].pc \in {"patch", "done", "panicked"}
         /\ task[k].log[Len(task[k].log)] = "ok"

TaskStepOrdered ==
  \A k \in DOMAIN task :
    /\ task'[k].applied # task[k].applied => BlobVerified(k)
    /\ (k \in DOMAIN blobs /\ k \notin DOMAIN blobs') =>
         task[k].applied = 1..Len(download_hashmap[k].patch_entries)
    /\ BlobChanged(k) => (task'[k] # task[k] \/ pc' # pc)

C20_PerTaskOrdering == []PatchingOnVerifiedBlob /\ [][TaskStepOrdered]_vars

C20_Witness ==
  \E k, k2 \in DOMAIN task :
    /\ k # k2
    /\ task[k].pc = "done" /\ k \notin DOMAIN blobs
    /\ Len(download_hashmap[k].patch_entries) >= 1
    /\ task[k2].pc = "patch" /\ BlobVerified(k2) /\ task[k2].applied = {}

\* C21 (completion ordering): whenever finished_patching reads true, every
\* download task has finished its download and all its Patch Entries, the
\* patcher/ directory has already been removed, and the removal is not still
\* ahead (where it could fail).
EveryTaskFinished ==
  \A k \in DOMAIN task : task[k].pc = "done" /\ AllApplied(k) /\ ~task[k].failed
RemovalAhead == pc = "cleanup"

C21_CompletionOrdering ==
  state.finished_patching => (EveryTaskFinished /\ ~patcher_dir /\ ~RemovalAhead)
\* C22 (patch crash-safety): if the process dies inside apply_patch for a
\* Patch Entry with has_source after the rename and before the decode has
\* finished, the complete prior content of the target is at the ".vcdiff_src"
\* sidecar afterwards; and a target left partially written is, once a later
\* run has planned, neither up to date nor patchable by delta for that run: it
\* has exactly one Patch Entry, a full-replace one.
ProcessDies == hist'.restarts # hist.restarts
MidDecode(k, x) ==
  /\ download_hashmap[k].patch_entries[x].has_source
  /\ task[k].step[x] \in {"ready", "decoding"}

DiesWithSource ==
  ProcessDies =>
    \A k \in DOMAIN task : \A x \in DOMAIN task[k].step :
      MidDecode(k, x) =>
        LET src == SourcePath(download_hashmap[k].patch_entries[x].target_path) IN
          src \in DOMAIN disk' /\ disk'[src] = task[k].prior[x]

BeingDecoded(p) ==
  \E k \in DOMAIN task : \E x \in DOMAIN task[k].step :
    /\ download_hashmap[k].patch_entries[x].target_path = p
    /\ task[k].step[x] = "decoding"
LeftPartial(p) == Exists(p) /\ disk[p] = PartialOutput /\ ~BeingDecoded(p)

PartialPlannedFull ==
  state.finished_hash =>
    \A p \in DOMAIN manifest : LeftPartial(p) => FullReplace(p)

C22_PatchCrashSafety == []PartialPlannedFull /\ [][DiesWithSource]_vars

C22_Witness ==
  /\ hist.restarts > 0
  /\ state.finished_hash
  /\ \E p \in DOMAIN manifest :
       /\ LeftPartial(p) /\ FullReplace(p)
       /\ Exists(SourcePath(p)) /\ <<disk[SourcePath(p)]>> = manifest[p].old_hash
\* C23 (progress accounting): in every reachable state downloaded_bytes <=
\* total_bytes, also after a hash-mismatch retry on another mirror; and when a
\* run in which every download succeeded at its first attempt, with no blob to
\* resume, sets finished_patching, downloaded_bytes = total_bytes.
DownloadedWithinTotal == state.download_size[1] <= state.download_size[2]
CleanRun == AllAnswersOk /\ \A k \in DOMAIN task : Len(task[k].log) = 1
CleanRunCreditsAll ==
  (state.finished_patching /\ CleanRun) =>
    state.download_size[1] = state.download_size[2]

C23_ProgressAccounting == DownloadedWithinTotal /\ CleanRunCreditsAll
\* C25 (delta only when published): a Patch Entry with a source (a delta
\* download under the key new_hash_from_old_hash) exists only for an
\* instruction with has_delta = true and a delta_hash; and an instruction with
\* has_delta = false whose file on disk has the old_hash neither aborts the
\* run nor gets a delta entry: when planning has ended it has the full-replace
\* entry.
DeltaPublished(p) == manifest[p].has_delta /\ is_some(manifest[p].delta_hash)
OnOldVersion(p) ==
  /\ Wanted(p) /\ Exists(p) /\ is_some(manifest[p].old_hash)
  /\ get_hash(p) = manifest[p].old_hash /\ get_hash(p) # manifest[p].new_hash
PlanningAborted == \E i \in Paths : worker[i].pc = "panicked"

DeltaEntriesPublished ==
  \A p \in DOMAIN manifest : \A kx \in EntriesOf(p) :
    EntryAt(kx).has_source => DeltaPublished(p)
UnpublishedPlannedFull ==
  \A p \in DOMAIN manifest :
    (OnOldVersion(p) /\ ~manifest[p].has_delta) =>
      /\ ~PlanningAborted
      /\ state.finished_hash => FullReplace(p)

C25_DeltaOnlyWhenPublished == DeltaEntriesPublished /\ UnpublishedPlannedFull
\* C24 (deadlock freedom): the three mutexes are taken in one order,
\* hash_queue before download_hashmap before state, counting the guards the
\* calling thread holds across a par_iter; a thread that holds state takes no
\* other lock; each mutex has one holder at a time; and under the scheduling
\* of LockFairness no thread waits at a lock() forever: the observer obtains
\* the state lock after every sleep, and so do the planner workers, the
\* download workers and the calling thread for the locks they ask for.
WorkerHolds(i) ==
  [queue |-> worker[i].pc = "qpush", map |-> map_lock = i,
   state |-> worker[i].pc = "sadd"]
MainHolds ==
  [queue |-> queue_lock = "main", map |-> map_lock = MainThread,
   state |-> state_lock = "main"]
TaskHoldsState(k) == task[k].pc \in {"sadd", "crediting"}
ObserverHoldsState == observer.pc = "read"

StateHolders ==
  Cardinality({i \in Paths : WorkerHolds(i).state})
    + Cardinality({k \in DOMAIN task : TaskHoldsState(k)})
    + (IF MainHolds.state THEN 1 ELSE 0)
    + (IF ObserverHoldsState THEN 1 ELSE 0)
QueueHolders ==
  Cardinality({i \in Paths : WorkerHolds(i).queue}) + (IF MainHolds.queue THEN 1 ELSE 0)

LocksExclusive ==
  /\ StateHolders = (IF state_lock = "free" THEN 0 ELSE 1)
  /\ QueueHolders = (IF queue_lock = "free" THEN 0 ELSE 1)
  /\ (\E i \in Paths : WorkerHolds(i).state) <=> state_lock = "worker"
  /\ (\E k \in DOMAIN task : TaskHoldsState(k)) <=> state_lock = "task"
  /\ ObserverHoldsState <=> state_lock = "observer"
  /\ \A i \in Paths : WorkerHolds(i).state => WorkerHolds(i).map

OrderStep ==
  /\ \A i \in Paths :
       /\ (worker[i].pc = "qlock" /\ worker'[i].pc = "qpush") =>
            /\ ~WorkerHolds(i).map /\ ~WorkerHolds(i).state
            /\ ~MainHolds.map /\ ~MainHolds.state
       /\ (map_lock # i /\ map_lock' = i) =>
            ~WorkerHolds(i).state /\ ~MainHolds.state
  /\ (queue_lock # "main" /\ queue_lock' = "main") =>
       ~MainHolds.map /\ ~MainHolds.state
  /\ (map_lock # MainThread /\ map_lock' = MainThread) => ~MainHolds.state
  /\ (state_lock # "free" /\ state_lock' # state_lock) => state_lock' = "free"

WorkerWaits(i) == worker[i].pc \in {"qlock", "lock", "slock"}
TaskWaits(k) == k \in DOMAIN task /\ task[k].pc \in {"slock", "credit"}
MainWaits ==
  \/ pc = "check" /\ queue_lock # "main"
  \/ pc \in {"hashed", "files", "finlock", "report"}
ObserverWaits == observer.pc = "sleep"

\* "Waiting leads to not waiting", for each thread; a thread leaves a lock()
\* only by being granted the lock or, on a poisoned mutex, by panicking, and
\* the observer only by being granted it.
NoThreadWaitsForever ==
  /\ []<>(~ObserverWaits)
  /\ []<>(~MainWaits)
  /\ \A i \in Paths : []<>(~WorkerWaits(i))
  /\ \A k \in AllKeys : []<>(~TaskWaits(k))

C24_DeadlockFreedom ==
  /\ []LocksExclusive
  /\ [][OrderStep]_vars
  /\ NoThreadWaitsForever

C24_Witness ==
  /\ MainHolds.queue
  /\ ObserverHoldsState
  /\ \E i, j \in Paths :
       /\ WorkerHolds(i).map /\ worker[i].pc = "slock"
       /\ worker[j].pc = "lock"
====
